---- MODULE Spec2Model ----
(***************************************************************************)
(* Narrate: the weekly-summary pipeline (src/lib/actions/entries.ts,       *)
(* src/lib/ai/gemini.ts, src/lib/utils/date.ts).                           *)
(*                                                                         *)
(* Time is a count of ticks; a local day is TicksPerDay consecutive ticks. *)
(* Text is a sequence of characters, each a one-element string; the three  *)
(* section markers are single elements holding the marker text verbatim.   *)
(***************************************************************************)
EXTENDS Integers, Sequences, FiniteSets, TLC

VARIABLES
    now,            \* the wall clock (new Date())
    session,        \* the user of the current session, or NoUser
    apiKey,         \* process.env.GEMINI_API_KEY is set
    entriesTable,   \* rows of the entries table, in heap order
    pc,             \* position of the running server action
    op,             \* which server action is running
    user,           \* getEntriesForWeeklySummary: user
    endRead,        \* getLastNDaysRange: end, as read from the clock
    range,          \* getEntriesForWeeklySummary: { start, end }
    fetchedAt,      \* the clock value the fetch's range was computed from
    fetchExit,      \* the return statement getEntriesForWeeklySummary left through
    entriesResult,  \* value returned by getEntriesForWeeklySummary
    period,         \* generateWeeklySummaryAction: startDate, endDate
    entriesForAI,   \* generateWeeklySummaryAction: entriesForAI
    prompt,         \* generateWeeklySummary: prompt
    storageReads,   \* selects on entries made by this invocation
    providerCalls,  \* model.generateContent calls made by this invocation
    providerOutcome,\* what model.generateContent gave: a text or an error
    caught,         \* error caught by generateWeeklySummaryAction
    result,         \* value returned by the server action
    retAt,          \* the return statement the server action left through
    shape,          \* how the provider laid out its answer
    aiResponse,     \* parseAIResponse: aiResponse
    parsePc,        \* position of the call of parseAIResponse
    parsed,         \* parseAIResponse: returned value
    isOpen,         \* WeeklySummaryModal: isOpen
    isOffline,      \* useNetworkStatus: isOffline
    summary,        \* WeeklySummaryModal: summary
    isLoading,      \* WeeklySummaryModal: isLoading
    eligibility,    \* WeeklySummaryModal: eligibility
    errorState,     \* useErrorHandler: errorState
    pending,        \* promises the modal is awaiting: requests and retry delays
    retriesStarted, \* retries started in this open session with no success since
    request,        \* updateSession: request.nextUrl.pathname
    cookie,         \* the user the request's session cookie stands for
    mwUser,         \* updateSession: user
    profiles,       \* ids of the rows of the profiles table
    mwPc,           \* position of the running updateSession
    mwResponse,     \* value returned by updateSession
    hops,           \* redirects followed since the address was entered
    redirectUser,   \* the user getUser found for the request that was redirected
    savePc,         \* position of the running saveEntry
    saveContent,    \* saveEntry: content
    sanitizedContent, \* saveEntry: sanitizedContent
    saveUser,       \* saveEntry: user
    saveResult,     \* value returned by saveEntry
    content,        \* EntryForm: content
    lastContentRef, \* EntryForm: lastContentRef.current
    isManualSaveRef,\* EntryForm: isManualSaveRef.current
    autoSaveTimeoutRef, \* EntryForm: the auto-save timer that is running
    formIsLoading,  \* EntryForm: isLoading
    isSaving,       \* EntryForm: isSaving
    lastSaved,      \* EntryForm: lastSaved
    validationError,\* EntryForm: validationError
    saveStatus,     \* EntryForm: saveStatus
    formErrorState, \* EntryForm: errorState of its useErrorHandler
    formPending,    \* promises the form is awaiting: saves and retry delays
    statusResets,   \* EntryForm: timers running that reset saveStatus
    cache,          \* MemoryCache: cache
    cachePending,   \* withCache: calls awaiting fn
    cacheCall,      \* the last call made on the cache and what it returned
    navigatorOnLine,\* navigator.onLine
    isOnline,       \* useNetworkStatus: isOnline
    wasOffline,     \* useNetworkStatus: wasOffline
    netEvents,      \* online and offline events fired and not yet handled
    wasOfflineTimers, \* useNetworkStatus: timers running that reset wasOffline
    netMounted,     \* useNetworkStatus: its effect has run
    lastEvent       \* the event the hook's listeners ran for last

vars == <<now, session, apiKey, entriesTable, pc, op, user, endRead, range,
          fetchedAt, fetchExit, entriesResult, period, entriesForAI, prompt,
          storageReads, providerCalls, providerOutcome, caught, result, retAt,
          shape, aiResponse, parsePc, parsed, isOpen, isOffline, summary,
          isLoading, eligibility, errorState, pending, retriesStarted, request,
          cookie, mwUser, profiles, mwPc, mwResponse, hops, redirectUser,
          savePc,
          saveContent, sanitizedContent, saveUser, saveResult, content,
          lastContentRef, isManualSaveRef, autoSaveTimeoutRef, formIsLoading,
          isSaving, lastSaved, validationError, saveStatus, formErrorState,
          formPending, statusResets, cache, cachePending, cacheCall,
          navigatorOnLine, isOnline, wasOffline, netEvents, wasOfflineTimers,
          netMounted, lastEvent>>

pipelineVars == <<now, session, apiKey, entriesTable, pc, op, user, endRead,
                  range, fetchedAt, fetchExit, entriesResult, period, entriesForAI,
                  prompt, storageReads, providerCalls, providerOutcome, caught,
                  result, retAt>>

parseVars == <<shape, aiResponse, parsePc, parsed>>

modalVars == <<isOpen, isOffline, summary, isLoading, eligibility, errorState,
               pending, retriesStarted>>

mwVars == <<request, cookie, mwUser, profiles, mwPc, mwResponse, hops,
           redirectUser>>

saveVars == <<savePc, saveContent, sanitizedContent, saveUser, saveResult>>

formVars == <<content, lastContentRef, isManualSaveRef, autoSaveTimeoutRef,
              formIsLoading, isSaving, lastSaved, validationError, saveStatus,
              formErrorState, formPending, statusResets>>

cacheVars == <<cache, cachePending, cacheCall>>

netVars == <<navigatorOnLine, isOnline, wasOffline, netEvents,
             wasOfflineTimers, netMounted, lastEvent>>

\* the variables of the components modelled after the middleware
componentVars == <<saveVars, formVars, cacheVars, netVars>>

None == "none"

\* a record-valued local that has not been assigned yet
Undefined == [undefined |-> TRUE]
NoUser == "no-user"

(***************************************************************************)
(* Bounds of the model.                                                    *)
(***************************************************************************)
TicksPerDay == 2
MaxRows == 5
MaxTicks == 2
MaxLen == 5
MaxBullets == 2

(***************************************************************************)
(* Program constants.                                                      *)
(***************************************************************************)
SummaryDays == 7
MinEntries == 5

Users == {"user-123", "different-user-456"}

(***************************************************************************)
(* Calendar: day 0 is the first day of the first month of MonthLens.       *)
(***************************************************************************)
MonthLens == <<31, 28, 31>>

RECURSIVE MonthFirst(_)
MonthFirst(m) == IF m <= 1 THEN 0 ELSE MonthFirst(m - 1) + MonthLens[m - 1]

MonthOf(d) ==
    CHOOSE m \in 1..Len(MonthLens) :
        MonthFirst(m) <= d /\ d < MonthFirst(m) + MonthLens[m]

DayOf(t) == t \div TicksPerDay

\* Date.prototype.getDate: the day of the month, from 1
getDate(t) == DayOf(t) - MonthFirst(MonthOf(DayOf(t))) + 1

\* Date.prototype.setDate: day n of t's month, n of any sign, time of day kept
setDate(t, n) ==
    (MonthFirst(MonthOf(DayOf(t))) + n - 1) * TicksPerDay + (t % TicksPerDay)

\* setHours(0, 0, 0, 0)
StartOfDay(t) == DayOf(t) * TicksPerDay

\* setHours(23, 59, 59, 999)
EndOfDay(t) == DayOf(t) * TicksPerDay + (TicksPerDay - 1)

\* getLastNDaysRange, with the two clock reads it makes as parameters
getLastNDaysRange(days, endNow, startNow) ==
    [start |-> StartOfDay(setDate(startNow, getDate(endNow) - days)),
     end   |-> EndOfDay(endNow)]

getLastWeekRange(endNow, startNow) ==
    getLastNDaysRange(SummaryDays, endNow, startNow)

\* toLocaleDateString('en-US', ...): the calendar day, time of day dropped
formatDate(t) == [month |-> MonthOf(DayOf(t)), day |-> getDate(t)]

(***************************************************************************)
(* Storage: the entries table and the query of getEntriesForWeeklySummary. *)
(***************************************************************************)
Row(i, u, t) == [id |-> i, user_id |-> u, created_at |-> t, content |-> i]

\* variant: the lower bound of the range left out
MatchesNoStart(r, u, rg) ==
    /\ r.user_id = u
    /\ r.created_at <= rg.end

\* .eq('user_id', user.id).gte('created_at', start).lte('created_at', end)
MatchesAnyUser(r, u, rg) ==
    /\ r.created_at >= rg.start
    /\ r.created_at <= rg.end

Matches(r, u, rg) ==
    /\ r.user_id = u
    /\ r.created_at >= rg.start
    /\ r.created_at <= rg.end

RECURSIVE InsertByCreatedAt(_, _)
InsertByCreatedAt(sorted, r) ==
    IF sorted = <<>> THEN <<r>>
    ELSE IF sorted[Len(sorted)].created_at <= r.created_at
         THEN Append(sorted, r)
         ELSE Append(InsertByCreatedAt(SubSeq(sorted, 1, Len(sorted) - 1), r),
                     sorted[Len(sorted)])

\* variant: no order clause, rows come in heap order
OrderUnspecified(rows) == rows

\* .order('created_at', { ascending: true })
RECURSIVE OrderAscending(_)
OrderAscending(rows) ==
    IF rows = <<>> THEN <<>>
    ELSE InsertByCreatedAt(OrderAscending(SubSeq(rows, 1, Len(rows) - 1)),
                           rows[Len(rows)])

WeeklyQuery(table, u, rg) ==
    OrderAscending(SelectSeq(table, LAMBDA r : Matches(r, u, rg)))

(***************************************************************************)
(* ApiResponse<T>: an absent optional field is a field the record lacks.   *)
(***************************************************************************)
Success(d) == [success |-> TRUE, data |-> d]
Failure(m) == [success |-> FALSE, error |-> m]

HasData(r) == "data" \in DOMAIN r
HasError(r) == "error" \in DOMAIN r

MsgAuthRequired == "Authentication required"
MsgFetchFailed == "Failed to fetch entries for summary. Please try again."
MsgUnexpected == "An unexpected error occurred. Please try again."
MsgSummaryUnexpected ==
    "An unexpected error occurred while generating your summary. Please try again."

\* variant: the number still missing in place of the number found
MsgNeedMoreMissing(n) ==
    "You need at least 5 journal entries from the last 7 days to generate a summary. You currently have "
        \o ToString(5 - n) \o " entries."

MsgNeedMore(n) ==
    "You need at least 5 journal entries from the last 7 days to generate a summary. You currently have "
        \o ToString(n) \o " entries."

(***************************************************************************)
(* Text helpers (String.prototype.trim, the regular expressions).          *)
(***************************************************************************)
WeeklySummaryMarker == "**Weekly Summary:**"
KeyThemeMarker == "**Key Theme:**"
InsightsMarker == "**Insights & Reflections:**"

\* the characters of the class in split(/[-...]\s*/) as the source has them:
\* '-' and the three characters U+00E2, U+20AC, U+00A2
SplitChars == {"-", "U+00E2", "U+20AC", "U+00A2"}
Bullet == "U+2022"

IsSpace(c) == c \in {" ", "\n"}

RECURSIVE trimStart(_)
trimStart(s) ==
    IF s # <<>> /\ IsSpace(s[1]) THEN trimStart(Tail(s)) ELSE s

RECURSIVE trimEnd(_)
trimEnd(s) ==
    IF s # <<>> /\ IsSpace(s[Len(s)])
    THEN trimEnd(SubSeq(s, 1, Len(s) - 1)) ELSE s

trim(s) == trimEnd(trimStart(s))

\* least index i >= from with s[i] = c, or 0
IndexFrom(s, c, from) ==
    IF \E i \in from..Len(s) : s[i] = c
    THEN CHOOSE i \in from..Len(s) :
            s[i] = c /\ \A j \in from..(i - 1) : s[j] # c
    ELSE 0

\* /<marker>\s*([\s\S]*?)(?=<stop>|$)/ : group 1 of the first match, or no
\* match; stop = None gives /<marker>\s*([\s\S]*?)$/
MatchSection(s, marker, stop) ==
    LET m == IndexFrom(s, marker, 1)
        rest == trimStart(SubSeq(s, m + 1, Len(s)))
        e == IF stop = None THEN 0 ELSE IndexFrom(rest, stop, 1)
    IN  IF m = 0 THEN [matched |-> FALSE]
        ELSE [matched |-> TRUE,
              group |-> IF e = 0 THEN rest ELSE SubSeq(rest, 1, e - 1)]

\* String.prototype.split(/[-...]\s*/): the pieces between the matches
RECURSIVE SplitPieces(_, _, _)
SplitPieces(s, cur, acc) ==
    IF s = <<>> THEN Append(acc, cur)
    ELSE IF s[1] \in SplitChars
         THEN SplitPieces(trimStart(Tail(s)), <<>>, Append(acc, cur))
         ELSE SplitPieces(Tail(s), Append(cur, s[1]), acc)

splitInsights(s) == SplitPieces(s, <<>>, <<>>)

RECURSIVE MapTrim(_)
MapTrim(pieces) ==
    IF pieces = <<>> THEN <<>>
    ELSE <<trim(pieces[1])>> \o MapTrim(Tail(pieces))

\* variant: the fallback used only for an empty section, not for a missing one
OrElseMatchedOnly(m, fallback) ==
    IF ~m.matched THEN <<>>
    ELSE IF trim(m.group) # <<>> THEN trim(m.group) ELSE fallback

\* x || fallback, for a string x that may be undefined
OrElse(m, fallback) ==
    IF m.matched /\ trim(m.group) # <<>> THEN trim(m.group) ELSE fallback

NoSummary == <<"No summary available">>
NoTheme == <<"No theme identified">>

(***************************************************************************)
(* gemini.ts                                                               *)
(***************************************************************************)
parseAIResponse(text, startDate, endDate) ==
    LET summaryMatch == MatchSection(text, WeeklySummaryMarker, KeyThemeMarker)
        themeMatch == MatchSection(text, KeyThemeMarker, InsightsMarker)
        insightsMatch == MatchSection(text, InsightsMarker, None)
        insightsText == OrElse(insightsMatch, <<>>)
    IN  [summary |-> OrElse(summaryMatch, NoSummary),
         theme |-> OrElse(themeMatch, NoTheme),
         insights |-> MapTrim(SelectSeq(splitInsights(insightsText),
                                        LAMBDA piece : Len(trim(piece)) > 0)),
         period |-> [start |-> startDate, end |-> endDate]]

RECURSIVE PromptEntries(_, _)
PromptEntries(entries, index) ==
    IF entries = <<>> THEN <<>>
    ELSE <<[n |-> index + 1,
            date |-> formatDate(entries[1].created_at),
            content |-> entries[1].content]>>
         \o PromptEntries(Tail(entries), index + 1)

\* the prompt: its dates, its entries and the layout it asks for
formatJournalPrompt(entries, startDate, endDate) ==
    [startDate |-> startDate,
     endDate |-> endDate,
     entries |-> PromptEntries(entries, 0),
     layout |-> <<WeeklySummaryMarker, KeyThemeMarker, InsightsMarker>>]

GeminiAPIError(message, code) ==
    [name |-> "GeminiAPIError", message |-> message, code |-> code]

\* String.prototype.includes
Includes(s, k) ==
    \E i \in 1..(Len(s) - Len(k) + 1) : SubSeq(s, i, i + Len(k) - 1) = k

ClassifyNetworkFirst(errorMessage) ==
    IF Includes(errorMessage, "network") \/ Includes(errorMessage, "fetch")
    THEN GeminiAPIError(
            "Network error occurred. Please check your connection and try again.",
            "NETWORK_ERROR")
    ELSE IF Includes(errorMessage, "quota") \/ Includes(errorMessage, "rate")
    THEN GeminiAPIError("API rate limit exceeded. Please try again later.",
                        "RATE_LIMIT")
    ELSE IF Includes(errorMessage, "auth") \/ Includes(errorMessage, "key")
    THEN GeminiAPIError(
            "Authentication failed. Please check your API key configuration.",
            "AUTH_ERROR")
    ELSE GeminiAPIError("Failed to generate weekly summary. Please try again.",
                        "UNKNOWN_ERROR")

\* generateWeeklySummary, catch block: the error rethrown for a caught one
Classify(errorMessage) ==
    IF Includes(errorMessage, "quota") \/ Includes(errorMessage, "rate")
    THEN GeminiAPIError("API rate limit exceeded. Please try again later.",
                        "RATE_LIMIT")
    ELSE IF Includes(errorMessage, "network") \/ Includes(errorMessage, "fetch")
    THEN GeminiAPIError(
            "Network error occurred. Please check your connection and try again.",
            "NETWORK_ERROR")
    ELSE IF Includes(errorMessage, "auth") \/ Includes(errorMessage, "key")
    THEN GeminiAPIError(
            "Authentication failed. Please check your API key configuration.",
            "AUTH_ERROR")
    ELSE GeminiAPIError("Failed to generate weekly summary. Please try again.",
                        "UNKNOWN_ERROR")

\* variant: the emptiness check left out
IsEmptyTextNever(text) == FALSE

\* !text
IsEmptyText(text) == text = <<>>

ErrMissingKey == GeminiAPIError("Gemini API key is not configured", "MISSING_API_KEY")
ErrNoEntries ==
    GeminiAPIError("No journal entries provided for summary generation", "NO_ENTRIES")
ErrEmptyResponse == GeminiAPIError("Empty response from Gemini API", "EMPTY_RESPONSE")

(***************************************************************************)
(* entries.ts: generateWeeklySummaryAction, catch block                    *)
(***************************************************************************)
UserMessage(code) ==
    "Failed to generate weekly summary. " \o
    CASE code = "MISSING_API_KEY" -> "AI service is not configured properly."
      [] code = "RATE_LIMIT" ->
            "Too many requests. Please try again in a few minutes."
      [] code = "AUTH_ERROR" -> "AI service authentication failed."
      [] code = "NETWORK_ERROR" ->
            "Network connection issue. Please check your internet and try again."
      [] OTHER -> "Please try again later."

CatchResultNoMessage(error) == Failure("")

\* generateWeeklySummaryAction, catch block
CatchResult(error) ==
    IF error.name = "GeminiAPIError"
    THEN Failure(UserMessage(error.code))
    ELSE Failure(MsgSummaryUnexpected)

(***************************************************************************)
(* Initial states.                                                         *)
(***************************************************************************)
\* the last day of the first month, so that a tick can cross into the next
StartDay == MonthLens[1] - 1
StartNow == EndOfDay(StartDay * TicksPerDay)

\* creation times around the start of the window of StartNow
TimeOld == EndOfDay((StartDay - SummaryDays - 1) * TicksPerDay)
TimeEdge == StartOfDay((StartDay - SummaryDays) * TicksPerDay)
TimeMid == EndOfDay((StartDay - 3) * TicksPerDay)

RowKinds == {<<"user-123", TimeOld>>, <<"user-123", TimeEdge>>,
             <<"user-123", TimeMid>>, <<"different-user-456", TimeMid>>}

Tables ==
    UNION {{[i \in 1..n |-> Row(i, k[i][1], k[i][2])] : k \in [1..n -> RowKinds]}
           : n \in 0..MaxRows}

\* texts the provider may answer with
Responses ==
    {<<>>, <<" ">>, <<"a">>,
     <<WeeklySummaryMarker, " ", "a">>,
     <<WeeklySummaryMarker, " ", "a", "\n", KeyThemeMarker, " ", "b", "\n",
       InsightsMarker, "\n", "-", " ", "a", "\n", "-", " ", "b">>}

\* messages of the errors the provider may throw
ProviderMessages ==
    {"quota exceeded", "rate limit exceeded", "network unreachable",
     "fetch failed", "unauthorized", "API key not valid", "internal error",
     "gemini-pro:generateContent: fetch failed"}

\* null, for a state that holds an object or null
Null == [null |-> TRUE]

\* null, for a state that holds a string or null
NullString == "null"

\* useErrorHandler: the initial errorState, also what clearError sets
ClearedErrorState ==
    [error |-> NullString, isRetrying |-> FALSE, retryCount |-> 0]

(***************************************************************************)
(* hooks/useErrorHandler.ts                                                *)
(***************************************************************************)

\* WeeklySummaryModal: useErrorHandler({ maxRetries: 3, ... })
maxRetries == 3

\* setError(error)
setError(es, error) == [es EXCEPT !.error = error, !.isRetrying = FALSE]

\* retry: the functional update made once the guard has passed
RetryMarked(es) ==
    [es EXCEPT !.isRetrying = TRUE, !.retryCount = es.retryCount + 1]

\* retry: if (errorState.retryCount >= maxRetries) return
RetryRefused(es) == es.retryCount >= maxRetries

canRetry(es) == es.retryCount < maxRetries /\ ~es.isRetrying

UpperCase == "ABCDEFGHIJKLMNOPQRSTUVWXYZ"
LowerCase == "abcdefghijklmnopqrstuvwxyz"

\* String.prototype.toLowerCase, on the letters A-Z
RECURSIVE toLowerCase(_)
toLowerCase(str) ==
    IF Len(str) = 0 THEN ""
    ELSE IF Len(str) = 1
    THEN LET up == {i \in 1..26 : SubSeq(UpperCase, i, i) = str}
             at == CHOOSE j \in up : TRUE
         IN  IF up = {} THEN str ELSE SubSeq(LowerCase, at, at)
    ELSE LET half == Len(str) \div 2
         IN  toLowerCase(SubSeq(str, 1, half))
                \o toLowerCase(SubSeq(str, half + 1, Len(str)))

\* a string that is neither null nor empty
Truthy(str) == str # NullString /\ str # ""

\* getErrorMessage(): the error the hook hands to the component
getErrorMessage(es, offline) ==
    IF ~Truthy(es.error) THEN NullString
    ELSE IF offline
    THEN "You appear to be offline. Please check your internet connection and try again."
    ELSE LET lower == toLowerCase(es.error)
         IN  IF Includes(lower, "network") \/ Includes(lower, "fetch")
             THEN "Network connection issue. Please check your internet and try again."
             ELSE IF Includes(lower, "auth")
             THEN "Authentication required. Please log in again."
             ELSE IF Includes(lower, "rate limit")
             THEN "Too many requests. Please wait a moment and try again."
             ELSE es.error

\* WeeklySummaryModal mounted closed, nothing awaited
ModalIdle ==
    /\ isOpen = FALSE
    /\ isOffline = FALSE
    /\ summary = Null
    /\ isLoading = FALSE
    /\ eligibility = Null
    /\ errorState = ClearedErrorState
    /\ pending = <<>>
    /\ retriesStarted = 0

\* no saveEntry running
SaveIdle ==
    /\ savePc = "idle"
    /\ saveContent = <<>>
    /\ sanitizedContent = <<>>
    /\ saveUser = NoUser
    /\ saveResult = Failure(None)

\* an EntryForm just rendered
FormIdle ==
    /\ content = <<>>
    /\ lastContentRef = <<>>
    /\ isManualSaveRef = FALSE
    /\ autoSaveTimeoutRef = Null
    /\ formIsLoading = FALSE
    /\ isSaving = FALSE
    /\ lastSaved = Null
    /\ validationError = ""
    /\ saveStatus = "idle"
    /\ formErrorState = ClearedErrorState
    /\ formPending = <<>>
    /\ statusResets = 0

\* new MemoryCache()
CacheIdle ==
    /\ cache = {}
    /\ cachePending = <<>>
    /\ cacheCall = [op |-> "none"]

\* a page just loaded, online
NetIdle ==
    /\ navigatorOnLine = TRUE
    /\ isOnline = TRUE
    /\ wasOffline = FALSE
    /\ netEvents = <<>>
    /\ wasOfflineTimers = 0
    /\ netMounted = FALSE
    /\ lastEvent = None

\* the components modelled after the middleware, at rest
ComponentsIdle == SaveIdle /\ FormIdle /\ CacheIdle /\ NetIdle

\* no request in the middleware
MwIdle ==
    /\ request = None
    /\ cookie = NoUser
    /\ mwUser = NoUser
    /\ profiles = {}
    /\ mwPc = "idle"
    /\ mwResponse = [kind |-> "none"]
    /\ hops = 0
    /\ redirectUser = NoUser

Idle ==
    /\ pc = "idle"
    /\ op = None
    /\ user = None
    /\ endRead = 0
    /\ range = [start |-> 0, end |-> 0]
    /\ fetchedAt = 0
    /\ fetchExit = None
    /\ entriesResult = Failure(None)
    /\ period = Undefined
    /\ entriesForAI = <<>>
    /\ prompt = Undefined
    /\ storageReads = 0
    /\ providerCalls = 0
    /\ providerOutcome = [kind |-> "none"]
    /\ caught = Undefined
    /\ result = Failure(None)
    /\ retAt = None

Init ==
    /\ now = StartNow
    /\ session \in Users \cup {NoUser}
    /\ apiKey \in BOOLEAN
    /\ entriesTable \in Tables
    /\ Idle
    /\ shape = [kind |-> "free"]
    /\ aiResponse = <<>>
    /\ parsePc = "idle"
    /\ parsed = Undefined
    /\ ModalIdle
    /\ MwIdle
    /\ ComponentsIdle

(***************************************************************************)
(* The environment.                                                        *)
(***************************************************************************)
Tick ==
    /\ now < StartNow + MaxTicks
    /\ now' = now + 1
    /\ UNCHANGED <<session, apiKey, entriesTable, pc, op, user, endRead,
                   range, fetchedAt, fetchExit, entriesResult, period,
                   entriesForAI, prompt, storageReads, providerCalls,
                   providerOutcome, caught, result, retAt, parseVars,
                   modalVars, mwVars, componentVars>>

(***************************************************************************)
(* getEntriesForWeeklySummary                                              *)
(***************************************************************************)
Invoke(o) ==
    /\ pc = "idle"
    /\ pc' = "auth"
    /\ op' = o
    /\ UNCHANGED <<now, session, apiKey, entriesTable, user, endRead, range,
                   fetchedAt, fetchExit, entriesResult, period, entriesForAI,
                   prompt, storageReads, providerCalls, providerOutcome,
                   caught, result, retAt, parseVars, modalVars, mwVars,
                   componentVars>>

\* createClient and auth.getUser: outcome is "ok", "error" or "throw"
AuthFailedErrorOnly(outcome, sess) == outcome = "error"

\* if (authError || !user)
AuthFailed(outcome, sess) == outcome = "error" \/ sess = NoUser

GetUser(outcome) ==
    /\ pc = "auth"
    /\ IF outcome = "throw"
       THEN /\ fetchExit' = "threw"
            /\ entriesResult' = Failure(MsgUnexpected)
            /\ pc' = "fetched"
            /\ user' = user
       ELSE IF AuthFailed(outcome, session)
       THEN /\ fetchExit' = "auth"
            /\ entriesResult' = Failure(MsgAuthRequired)
            /\ pc' = "fetched"
            /\ user' = user
       ELSE /\ user' = session
            /\ pc' = "range_end"
            /\ UNCHANGED <<fetchExit, entriesResult>>
    /\ UNCHANGED <<now, session, apiKey, entriesTable, op, endRead, range,
                   fetchedAt, period, entriesForAI, prompt, storageReads,
                   providerCalls, providerOutcome, caught, result, retAt,
                   parseVars, modalVars, mwVars, componentVars>>

\* getLastNDaysRange: const end = new Date()
RangeReadEnd ==
    /\ pc = "range_end"
    /\ endRead' = now
    /\ pc' = "range_start"
    /\ UNCHANGED <<now, session, apiKey, entriesTable, op, user, range,
                   fetchedAt, fetchExit, entriesResult, period, entriesForAI,
                   prompt, storageReads, providerCalls, providerOutcome,
                   caught, result, retAt, parseVars, modalVars, mwVars,
                   componentVars>>

\* getLastNDaysRange: const start = new Date(), and the rest of the function
RangeReadStart ==
    /\ pc = "range_start"
    /\ range' = getLastWeekRange(endRead, now)
    /\ fetchedAt' = endRead
    /\ pc' = "query"
    /\ UNCHANGED <<now, session, apiKey, entriesTable, op, user, endRead,
                   fetchExit, entriesResult, period, entriesForAI, prompt,
                   storageReads, providerCalls, providerOutcome, caught,
                   result, retAt, parseVars, modalVars, mwVars, componentVars>>

\* variant: a failed select answered with an empty list
QueryResultDefaulting(outcome, rows) ==
    CASE outcome = "ok" -> [exit |-> "ok", value |-> Success(rows)]
      [] outcome = "error" -> [exit |-> "db_error", value |-> Success(<<>>)]
      [] OTHER -> [exit |-> "threw", value |-> Failure(MsgUnexpected)]

\* what getEntriesForWeeklySummary returns after the select, whose outcome
\* is "ok" (rows), "error" (an error object) or "throw"
QueryResult(outcome, rows) ==
    CASE outcome = "ok" -> [exit |-> "ok", value |-> Success(rows)]
      [] outcome = "error" -> [exit |-> "db_error", value |-> Failure(MsgFetchFailed)]
      [] OTHER -> [exit |-> "threw", value |-> Failure(MsgUnexpected)]

Query(outcome) ==
    /\ pc = "query"
    /\ pc' = "fetched"
    /\ LET r == QueryResult(outcome, WeeklyQuery(entriesTable, user, range))
       IN  /\ fetchExit' = r.exit
           /\ entriesResult' = r.value
    /\ storageReads' = storageReads + 1
    /\ UNCHANGED <<now, session, apiKey, entriesTable, op, user, endRead,
                   range, fetchedAt, period, entriesForAI, prompt,
                   providerCalls, providerOutcome, caught, result, retAt,
                   parseVars, modalVars, mwVars, componentVars>>

(***************************************************************************)
(* canGenerateWeeklySummary                                                *)
(***************************************************************************)
\* || on an optional string
ErrorOr(r, fallback) ==
    IF HasError(r) /\ r.error # "" THEN r.error ELSE fallback

\* variant: > in place of >=
EligibilityStrict(entries) ==
    [canGenerate |-> Len(entries) > MinEntries, entryCount |-> Len(entries)]

Eligibility(entries) ==
    [canGenerate |-> Len(entries) >= MinEntries, entryCount |-> Len(entries)]

CheckReturn ==
    /\ pc = "fetched"
    /\ op = "canGenerate"
    /\ pc' = "done"
    /\ IF ~entriesResult.success \/ ~HasData(entriesResult)
       THEN /\ result' = Failure(ErrorOr(entriesResult, "Failed to check entries"))
            /\ retAt' = "check_failed"
       ELSE /\ result' = Success(Eligibility(entriesResult.data))
            /\ retAt' = "check_ok"
    /\ UNCHANGED <<now, session, apiKey, entriesTable, op, user, endRead,
                   range, fetchedAt, fetchExit, entriesResult, period,
                   entriesForAI, prompt, storageReads, providerCalls,
                   providerOutcome, caught, parseVars, modalVars, mwVars,
                   componentVars>>

(***************************************************************************)
(* generateWeeklySummaryAction                                             *)
(***************************************************************************)
\* variant: the threshold compared one too low
TooFewOffByOne(entries) == Len(entries) < MinEntries - 1

\* entries.length < 5
TooFew(entries) == Len(entries) < MinEntries

GenerateAfterFetch ==
    /\ pc = "fetched"
    /\ op = "generate"
    /\ IF ~entriesResult.success \/ ~HasData(entriesResult)
       THEN /\ result' = Failure(ErrorOr(entriesResult, "Failed to fetch entries"))
            /\ retAt' = "entries_failed"
            /\ pc' = "done"
       ELSE IF TooFew(entriesResult.data)
       THEN /\ result' = Failure(MsgNeedMore(Len(entriesResult.data)))
            /\ retAt' = "too_few"
            /\ pc' = "done"
       ELSE /\ pc' = "fmt_end"
            /\ UNCHANGED <<result, retAt>>
    /\ UNCHANGED <<now, session, apiKey, entriesTable, op, user, endRead,
                   range, fetchedAt, fetchExit, entriesResult, period,
                   entriesForAI, prompt, storageReads, providerCalls,
                   providerOutcome, caught, parseVars, modalVars, mwVars,
                   componentVars>>

\* the second getLastWeekRange: const end = new Date()
FormatReadEnd ==
    /\ pc = "fmt_end"
    /\ endRead' = now
    /\ pc' = "fmt_start"
    /\ UNCHANGED <<now, session, apiKey, entriesTable, op, user, range,
                   fetchedAt, fetchExit, entriesResult, period, entriesForAI,
                   prompt, storageReads, providerCalls, providerOutcome,
                   caught, result, retAt, parseVars, modalVars, mwVars,
                   componentVars>>

RECURSIVE ForAI(_)
ForAI(entries) ==
    IF entries = <<>> THEN <<>>
    ELSE <<[content |-> entries[1].content,
            created_at |-> entries[1].created_at]>> \o ForAI(Tail(entries))

\* const start = new Date(), formatDate of both, entriesForAI
FormatReadStart ==
    /\ pc = "fmt_start"
    /\ pc' = "gen"
    /\ LET r == getLastWeekRange(endRead, now)
       IN  period' = [start |-> formatDate(r.start), end |-> formatDate(r.end)]
    /\ entriesForAI' = ForAI(entriesResult.data)
    /\ UNCHANGED <<now, session, apiKey, entriesTable, op, user, endRead,
                   range, fetchedAt, fetchExit, entriesResult, prompt,
                   storageReads, providerCalls, providerOutcome, caught,
                   result, retAt, parseVars, modalVars, mwVars, componentVars>>

\* generateWeeklySummary up to the call of model.generateContent
GenerateStart ==
    /\ pc = "gen"
    /\ IF ~apiKey \/ Len(entriesForAI) = 0
       THEN /\ pc' = "done"
            /\ caught' = IF ~apiKey THEN ErrMissingKey ELSE ErrNoEntries
            /\ result' = CatchResult(caught')
            /\ retAt' = "gemini_error"
            /\ UNCHANGED <<prompt, providerCalls>>
       ELSE /\ pc' = "provider"
            /\ prompt' = formatJournalPrompt(entriesForAI, period.start, period.end)
            /\ providerCalls' = providerCalls + 1
            /\ UNCHANGED <<caught, result, retAt>>
    /\ UNCHANGED <<now, session, apiKey, entriesTable, op, user, endRead,
                   range, fetchedAt, fetchExit, entriesResult, period,
                   entriesForAI, storageReads, providerOutcome, parseVars,
                   modalVars, mwVars, componentVars>>

\* model.generateContent resolves and response.text() gives text
ProviderReturn(text) ==
    /\ pc = "provider"
    /\ pc' = "done"
    /\ providerOutcome' = [kind |-> "text", text |-> text]
    /\ IF IsEmptyText(text)
       THEN /\ caught' = ErrEmptyResponse
            /\ result' = CatchResult(caught')
            /\ retAt' = "gemini_error"
       ELSE /\ LET aiSummary == parseAIResponse(text, period.start, period.end)
               IN  result' = Success([summary |-> aiSummary.summary,
                                      theme |-> aiSummary.theme,
                                      insights |-> aiSummary.insights,
                                      period |-> [start |-> period.start,
                                                  end |-> period.end]])
            /\ retAt' = "ok"
            /\ UNCHANGED caught
    /\ UNCHANGED <<now, session, apiKey, entriesTable, op, user, endRead,
                   range, fetchedAt, fetchExit, entriesResult, period,
                   entriesForAI, prompt, storageReads, providerCalls,
                   parseVars, modalVars, mwVars, componentVars>>

\* variant: a failed provider call is made once more before giving up
ProviderThrowRetry(message) ==
    /\ pc = "provider"
    /\ IF providerCalls < 2
       THEN /\ providerCalls' = providerCalls + 1
            /\ UNCHANGED <<pc, providerOutcome, caught, result, retAt>>
       ELSE /\ pc' = "done"
            /\ providerOutcome' = [kind |-> "error", message |-> message]
            /\ caught' = Classify(message)
            /\ result' = CatchResult(caught')
            /\ retAt' = "gemini_error"
            /\ UNCHANGED providerCalls
    /\ UNCHANGED <<now, session, apiKey, entriesTable, op, user, endRead,
                   range, fetchedAt, fetchExit, entriesResult, period,
                   entriesForAI, prompt, storageReads, parseVars, modalVars,
                   mwVars, componentVars>>

\* model.generateContent (or response.text()) throws an error with message
ProviderThrow(message) ==
    /\ pc = "provider"
    /\ pc' = "done"
    /\ providerOutcome' = [kind |-> "error", message |-> message]
    /\ caught' = Classify(message)
    /\ result' = CatchResult(caught')
    /\ retAt' = "gemini_error"
    /\ UNCHANGED <<now, session, apiKey, entriesTable, op, user, endRead,
                   range, fetchedAt, fetchExit, entriesResult, period,
                   entriesForAI, prompt, storageReads, providerCalls,
                   parseVars, modalVars, mwVars, componentVars>>

\* the server action has returned; the next call starts afresh
Return ==
    /\ pc = "done"
    /\ pc' = "idle"
    /\ op' = None
    /\ user' = None
    /\ endRead' = 0
    /\ range' = [start |-> 0, end |-> 0]
    /\ fetchedAt' = 0
    /\ fetchExit' = None
    /\ entriesResult' = Failure(None)
    /\ period' = Undefined
    /\ entriesForAI' = <<>>
    /\ prompt' = Undefined
    /\ storageReads' = 0
    /\ providerCalls' = 0
    /\ providerOutcome' = [kind |-> "none"]
    /\ caught' = Undefined
    /\ result' = Failure(None)
    /\ retAt' = None
    /\ UNCHANGED <<now, session, apiKey, entriesTable, parseVars, modalVars,
                   mwVars, componentVars>>

Next ==
    \/ Tick
    \/ \E o \in {"canGenerate", "generate"} : Invoke(o)
    \/ \E outcome \in {"ok", "error", "throw"} : GetUser(outcome)
    \/ RangeReadEnd
    \/ RangeReadStart
    \/ \E outcome \in {"ok", "error", "throw"} : Query(outcome)
    \/ CheckReturn
    \/ GenerateAfterFetch
    \/ FormatReadEnd
    \/ FormatReadStart
    \/ GenerateStart
    \/ \E text \in Responses : ProviderReturn(text)
    \/ \E message \in ProviderMessages : ProviderThrow(message)
    \/ Return

Spec == Init /\ [][Next]_vars

\* ---------------------------------------------------------------------------
\* the same program under the scheduling of its own steps: a server action
\* that has been invoked runs each of its steps as soon as the awaited call
\* before it has settled.  The auth lookup and the select are taken to
\* settle; nothing in the code makes model.generateContent settle, and
\* nothing makes a user invoke an action, so those steps carry no fairness.

\* tables of an account with no entries or with five entries in the window
FewTables ==
    {<<>>, [i \in 1..MinEntries |-> Row(i, "user-123", TimeMid)]}

InitFew ==
    /\ now = StartNow
    /\ session \in Users \cup {NoUser}
    /\ apiKey \in BOOLEAN
    /\ entriesTable \in FewTables
    /\ Idle
    /\ shape = [kind |-> "free"]
    /\ aiResponse = <<>>
    /\ parsePc = "idle"
    /\ parsed = Undefined
    /\ ModalIdle
    /\ MwIdle
    /\ ComponentsIdle

ServerSteps ==
    /\ WF_vars(\E outcome \in {"ok", "error", "throw"} : GetUser(outcome))
    /\ WF_vars(RangeReadEnd)
    /\ WF_vars(RangeReadStart)
    /\ WF_vars(\E outcome \in {"ok", "error", "throw"} : Query(outcome))
    /\ WF_vars(CheckReturn)
    /\ WF_vars(GenerateAfterFetch)
    /\ WF_vars(FormatReadEnd)
    /\ WF_vars(FormatReadStart)
    /\ WF_vars(GenerateStart)
    /\ WF_vars(Return)

SpecFair == InitFew /\ [][Next]_vars /\ ServerSteps

(***************************************************************************)
(* parseAIResponse on its own: every short text, and every answer that     *)
(* follows the layout the prompt asks for.                                 *)
(***************************************************************************)
Alphabet ==
    {WeeklySummaryMarker, KeyThemeMarker, InsightsMarker, "-", Bullet, " ", "a"}

FreeTexts == UNION {[1..n -> Alphabet] : n \in 1..MaxLen}

\* section bodies and bullet texts: trimmed, non-empty, free of markers
BodyTexts == {<<"a">>, <<"a", " ", "b">>, <<"a", "-", "b">>}
BulletMarks == {"-", Bullet}
BulletLists ==
    UNION {[1..k -> [mark : BulletMarks, text : BodyTexts]] : k \in 1..MaxBullets}

Layouts ==
    [kind : {"layout"}, summary : BodyTexts, theme : BodyTexts,
     bullets : BulletLists]

RECURSIVE RenderBullets(_)
RenderBullets(bullets) ==
    IF bullets = <<>> THEN <<>>
    ELSE <<"\n", bullets[1].mark, " ">> \o bullets[1].text
         \o RenderBullets(Tail(bullets))

\* the text of an answer in the layout of formatJournalPrompt
Render(l) ==
    <<WeeklySummaryMarker, "\n">> \o l.summary \o <<"\n", "\n">>
    \o <<KeyThemeMarker, "\n">> \o l.theme \o <<"\n", "\n">>
    \o <<InsightsMarker>> \o RenderBullets(l.bullets)

ParseInit ==
    /\ now = StartNow
    /\ session = NoUser
    /\ apiKey = FALSE
    /\ entriesTable = <<>>
    /\ Idle
    /\ \/ /\ shape = [kind |-> "free"]
          /\ aiResponse \in FreeTexts
       \/ /\ shape \in Layouts
          /\ aiResponse = Render(shape)
    /\ parsePc = "call"
    /\ parsed = Undefined
    /\ ModalIdle
    /\ MwIdle
    /\ ComponentsIdle

ParseCall ==
    /\ parsePc = "call"
    /\ parsed' = parseAIResponse(aiResponse, formatDate(StartNow),
                                 formatDate(StartNow))
    /\ parsePc' = "returned"
    /\ UNCHANGED <<pipelineVars, modalVars, mwVars, shape, aiResponse,
                   componentVars>>

ParseNext == ParseCall

SpecParse == ParseInit /\ [][ParseNext]_vars

(***************************************************************************)
(* components/WeeklySummaryModal.tsx with hooks/useErrorHandler.ts         *)
(*                                                                         *)
(* One step is one browser task: a user event, a timer or a settled        *)
(* request, with the state updates it makes and the continuations that run *)
(* in its microtasks.  React renders between tasks, so a handler sees the  *)
(* state of the latest render; a retry delay keeps the closure of the      *)
(* render its click was made in.                                           *)
(***************************************************************************)

\* promises awaited at once
MaxPending == 2

\* retries counted
MaxRetriesSeen == 4

\* what canGenerateWeeklySummary resolves to
CheckResults ==
    {Success([canGenerate |-> TRUE, entryCount |-> MinEntries]),
     Success([canGenerate |-> FALSE, entryCount |-> MinEntries - 1]),
     Failure(MsgAuthRequired)}

ASummary ==
    [summary |-> <<"a">>, theme |-> <<"b">>, insights |-> <<>>,
     period |-> [start |-> formatDate(TimeEdge), end |-> formatDate(StartNow)]]

\* what generateWeeklySummaryAction resolves to
GenerateResults ==
    {Success(ASummary), Failure(UserMessage("NETWORK_ERROR")),
     Failure(UserMessage("UNKNOWN_ERROR"))}

\* the call of a server action rejects with an Error of this message
Rejected(message) == [rejected |-> TRUE, message |-> message]

IsRejected(res) == "rejected" \in DOMAIN res

Rejections == {Rejected("Failed to fetch")}

\* const { error } = useErrorHandler(...)
error == getErrorMessage(errorState, isOffline)

\* renderContent: the branch taken
View ==
    IF ~isOpen THEN "closed"
    ELSE IF eligibility = Null /\ ~Truthy(error) THEN "loading"
    ELSE IF Truthy(error) THEN "error"
    ELSE IF eligibility # Null /\ ~eligibility.canGenerate THEN "not_eligible"
    ELSE IF summary # Null THEN "summary"
    ELSE "ready"

Remove(seq, i) == SubSeq(seq, 1, i - 1) \o SubSeq(seq, i + 1, Len(seq))

\* checkEligibility up to its await, called with the isOffline of its
\* closure; called by retry as onRetry, retry's clearError() follows its
\* return
checkEligibility(offline, viaRetry, awaited) ==
    IF offline
    THEN /\ errorState' =
               IF viaRetry THEN ClearedErrorState
               ELSE setError(ClearedErrorState,
                        "You need an internet connection to check your entries.")
         /\ pending' = awaited
    ELSE /\ errorState' = ClearedErrorState
         /\ pending' = Append(awaited, [kind |-> "check", retry |-> viaRetry])

\* handleGenerateSummary up to its await
handleGenerateSummary(offline, viaRetry, awaited) ==
    IF offline
    THEN /\ errorState' =
               IF viaRetry THEN ClearedErrorState
               ELSE setError(ClearedErrorState,
                        "You need an internet connection to generate a summary.")
         /\ pending' = awaited
         /\ UNCHANGED isLoading
    ELSE /\ errorState' = ClearedErrorState
         /\ isLoading' = TRUE
         /\ pending' = Append(awaited, [kind |-> "generate", retry |-> viaRetry])

InitModal ==
    /\ now = StartNow
    /\ session = NoUser
    /\ apiKey = FALSE
    /\ entriesTable = <<>>
    /\ Idle
    /\ shape = [kind |-> "free"]
    /\ aiResponse = <<>>
    /\ parsePc = "idle"
    /\ parsed = Undefined
    /\ ModalIdle
    /\ MwIdle
    /\ ComponentsIdle

\* the parent sets isOpen; effect: if (isOpen && !eligibility) checkEligibility()
Open ==
    /\ ~isOpen
    /\ isOpen' = TRUE
    /\ IF eligibility = Null
       THEN /\ Len(pending) < MaxPending
            /\ checkEligibility(isOffline, FALSE, pending)
       ELSE UNCHANGED <<errorState, pending>>
    /\ UNCHANGED <<pipelineVars, parseVars, mwVars, isOffline, summary,
                   isLoading, eligibility, retriesStarted, componentVars>>

\* onClose; effect: if (!isOpen) { setSummary(null); clearError();
\* setEligibility(null) }
Close ==
    /\ isOpen
    /\ isOpen' = FALSE
    /\ summary' = Null
    /\ errorState' = ClearedErrorState
    /\ eligibility' = Null
    /\ retriesStarted' = 0
    /\ UNCHANGED <<pipelineVars, parseVars, mwVars, isOffline, isLoading,
                   pending, componentVars>>

\* the Generate Summary button of the ready view
ClickGenerate ==
    /\ View = "ready"
    /\ ~(isLoading \/ isOffline \/ errorState.isRetrying)
    /\ Len(pending) < MaxPending
    /\ handleGenerateSummary(isOffline, FALSE, pending)
    /\ UNCHANGED <<pipelineVars, parseVars, mwVars, isOpen, isOffline,
                   summary, eligibility, retriesStarted, componentVars>>

\* the Try Again button of ErrorDisplay, rendered when onRetry && canRetry:
\* retry() up to its await of the delay
ClickRetry ==
    /\ View = "error"
    /\ canRetry(errorState)
    /\ Len(pending) < MaxPending
    /\ retriesStarted < MaxRetriesSeen
    /\ IF RetryRefused(errorState)
       THEN UNCHANGED <<errorState, pending, retriesStarted>>
       ELSE /\ errorState' = RetryMarked(errorState)
            /\ pending' =
                  Append(pending,
                         [kind |-> "delay",
                          canGenerate |->
                              eligibility # Null /\ eligibility.canGenerate,
                          offline |-> isOffline])
            /\ retriesStarted' = retriesStarted + 1
    /\ UNCHANGED <<pipelineVars, parseVars, mwVars, isOpen, isOffline,
                   summary, isLoading, eligibility, componentVars>>

\* retry() after its delay: await onRetry(), with the eligibility and the
\* isOffline of the render the click was made in
DelayElapsed(i) ==
    /\ i \in DOMAIN pending
    /\ pending[i].kind = "delay"
    /\ IF pending[i].canGenerate
       THEN handleGenerateSummary(pending[i].offline, TRUE, Remove(pending, i))
       ELSE /\ checkEligibility(pending[i].offline, TRUE, Remove(pending, i))
            /\ UNCHANGED isLoading
    /\ UNCHANGED <<pipelineVars, parseVars, mwVars, isOpen, isOffline,
                   summary, eligibility, retriesStarted, componentVars>>

\* the message a handler passes to setError for a response that is no
\* success with data, or for a rejection
FailureMessage(res, fallback) ==
    IF IsRejected(res) THEN res.message ELSE ErrorOr(res, fallback)

Succeeded(res) == ~IsRejected(res) /\ res.success /\ HasData(res)

\* a request settles with res: the rest of checkEligibility or of
\* handleGenerateSummary, then of retry (clearError()) if retry awaited it
Settle(i, res) ==
    /\ i \in DOMAIN pending
    /\ \/ /\ pending[i].kind = "check"
          /\ res \in CheckResults \cup Rejections
          /\ eligibility' = IF Succeeded(res) THEN res.data ELSE eligibility
          /\ errorState' =
                IF pending[i].retry THEN ClearedErrorState
                ELSE IF Succeeded(res) THEN errorState
                ELSE setError(errorState,
                              FailureMessage(res, "Failed to check eligibility"))
          /\ UNCHANGED <<summary, isLoading>>
       \/ /\ pending[i].kind = "generate"
          /\ res \in GenerateResults \cup Rejections
          /\ summary' = IF Succeeded(res) THEN res.data ELSE summary
          /\ errorState' =
                IF pending[i].retry THEN ClearedErrorState
                ELSE IF Succeeded(res) THEN errorState
                ELSE setError(errorState,
                              FailureMessage(res, "Failed to generate summary"))
          /\ isLoading' = FALSE
          /\ UNCHANGED eligibility
    /\ pending' = Remove(pending, i)
    /\ retriesStarted' = IF Succeeded(res) THEN 0 ELSE retriesStarted
    /\ UNCHANGED <<pipelineVars, parseVars, mwVars, isOpen, isOffline,
                   componentVars>>

\* useNetworkStatus: the window's offline and online events
GoOffline ==
    /\ ~isOffline
    /\ isOffline' = TRUE
    /\ UNCHANGED <<pipelineVars, parseVars, mwVars, isOpen, summary,
                   isLoading, eligibility, errorState, pending,
                   retriesStarted, componentVars>>

GoOnline ==
    /\ isOffline
    /\ isOffline' = FALSE
    /\ UNCHANGED <<pipelineVars, parseVars, mwVars, isOpen, summary,
                   isLoading, eligibility, errorState, pending,
                   retriesStarted, componentVars>>

NextModal ==
    \/ Open
    \/ Close
    \/ ClickGenerate
    \/ ClickRetry
    \/ \E i \in 1..MaxPending : DelayElapsed(i)
    \/ \E i \in 1..MaxPending :
          \E res \in CheckResults \cup GenerateResults \cup Rejections :
              Settle(i, res)
    \/ GoOffline
    \/ GoOnline

SpecModal == InitModal /\ [][NextModal]_vars

(***************************************************************************)
(* lib/supabase/middleware.ts: updateSession                               *)
(***************************************************************************)

\* redirects a browser follows for one address
MaxHops == 2

\* request.nextUrl.pathname of the requests made
Paths ==
    {"/", "/login", "/signup", "/forgot-password", "/reset-password",
     "/dashboard", "/dashboard/settings", "/api/entries"}

protectedPaths == {"/dashboard"}

authPaths == {"/login", "/signup", "/forgot-password"}

\* String.prototype.startsWith
startsWith(str, prefix) ==
    Len(str) >= Len(prefix) /\ SubSeq(str, 1, Len(prefix)) = prefix

isProtectedPath(pathname) == \E path \in protectedPaths : startsWith(pathname, path)

isAuthPath(pathname) == \E path \in authPaths : startsWith(pathname, path)

Redirect(pathname) == [kind |-> "redirect", to |-> pathname]

\* variant: every path but the root asks for a user, the auth pages included
RouteResponseProtectAll(pathname, u) ==
    IF u = NoUser /\ pathname # "/" THEN Redirect("/login")
    ELSE IF u # NoUser /\ isAuthPath(pathname) THEN Redirect("/dashboard")
    ELSE [kind |-> "next"]

\* the response updateSession returns for a path and the user it found
RouteResponse(pathname, u) ==
    IF u = NoUser /\ isProtectedPath(pathname) THEN Redirect("/login")
    ELSE IF u # NoUser /\ isAuthPath(pathname) THEN Redirect("/dashboard")
    ELSE [kind |-> "next"]

InitMiddleware ==
    /\ now = StartNow
    /\ session = NoUser
    /\ apiKey = FALSE
    /\ entriesTable = <<>>
    /\ Idle
    /\ shape = [kind |-> "free"]
    /\ aiResponse = <<>>
    /\ parsePc = "idle"
    /\ parsed = Undefined
    /\ ModalIdle
    /\ MwIdle
    /\ ComponentsIdle

\* a browser asks for a path, with the cookie of a session or without
Navigate(pathname, c) ==
    /\ mwPc = "idle"
    /\ request' = pathname
    /\ cookie' = c
    /\ mwPc' = "get_user"
    /\ UNCHANGED <<pipelineVars, parseVars, modalVars, mwUser, profiles,
                   mwResponse, hops, redirectUser, componentVars>>

\* await supabase.auth.getUser(): the user of the cookie, no user (no or an
\* invalid session; the error is not read), or a rejection, which
\* updateSession does not catch
MwGetUser(outcome) ==
    /\ mwPc = "get_user"
    /\ IF outcome = "throw"
       THEN /\ mwResponse' = [kind |-> "threw"]
            /\ mwPc' = "responded"
            /\ UNCHANGED mwUser
       ELSE /\ mwUser' = IF outcome = "ok" THEN cookie ELSE NoUser
            /\ mwPc' = IF mwUser' # NoUser THEN "profile" ELSE "route"
            /\ UNCHANGED mwResponse
    /\ UNCHANGED <<pipelineVars, parseVars, modalVars, request, cookie,
                   profiles, hops, redirectUser, componentVars>>

\* if (user): select the profile and insert it when the select finds none
\* (PGRST116); a failed select or insert or an exception is only logged
EnsureProfile(outcome) ==
    /\ mwPc = "profile"
    /\ profiles' = IF outcome = "ok" THEN profiles \cup {mwUser} ELSE profiles
    /\ mwPc' = "route"
    /\ UNCHANGED <<pipelineVars, parseVars, modalVars, request, cookie,
                   mwUser, mwResponse, hops, redirectUser, componentVars>>

\* the two redirects, or return supabaseResponse
Route ==
    /\ mwPc = "route"
    /\ mwResponse' = RouteResponse(request, mwUser)
    /\ mwPc' = "responded"
    /\ UNCHANGED <<pipelineVars, parseVars, modalVars, request, cookie,
                   mwUser, profiles, hops, redirectUser, componentVars>>

\* the browser follows a redirect with the same cookie
FollowRedirect ==
    /\ mwPc = "responded"
    /\ mwResponse.kind = "redirect"
    /\ hops < MaxHops
    /\ request' = mwResponse.to
    /\ hops' = hops + 1
    /\ redirectUser' = mwUser
    /\ mwPc' = "get_user"
    /\ mwUser' = NoUser
    /\ mwResponse' = [kind |-> "none"]
    /\ UNCHANGED <<pipelineVars, parseVars, modalVars, cookie, profiles,
                   componentVars>>

\* the response is final; the next address is entered
Settled ==
    /\ mwPc = "responded"
    /\ mwPc' = "idle"
    /\ request' = None
    /\ cookie' = NoUser
    /\ mwUser' = NoUser
    /\ mwResponse' = [kind |-> "none"]
    /\ hops' = 0
    /\ redirectUser' = NoUser
    /\ UNCHANGED <<pipelineVars, parseVars, modalVars, profiles, componentVars>>

NextMiddleware ==
    \/ \E pathname \in Paths, c \in Users \cup {NoUser} : Navigate(pathname, c)
    \/ \E outcome \in {"ok", "no_user", "throw"} : MwGetUser(outcome)
    \/ \E outcome \in {"ok", "select_error", "insert_error", "throw"} :
          EnsureProfile(outcome)
    \/ Route
    \/ FollowRedirect
    \/ Settled

SpecMiddleware == InitMiddleware /\ [][NextMiddleware]_vars

(***************************************************************************)
(* lib/utils/database-check.ts and lib/actions/entries.ts: saveEntry       *)
(*                                                                         *)
(* A content is a string given by its runs: <<[c |-> "a", n |-> 9],        *)
(* [c |-> " ", n |-> 1]>> is nine letters and a space.  "U+0001" is a      *)
(* control character that is no white space.                               *)
(***************************************************************************)

\* runs of a content
MaxRuns == 3

\* entries saved in one behaviour
MaxSaved == 1

\* trimmedContent.length < 10
MinContentLength == 10

\* trimmedContent.length > 10000
MaxContentLength == 10000

\* runs of a letter, of white space and of a control character
ContentRuns ==
    {[c |-> "a", n |-> 1], [c |-> "a", n |-> MinContentLength - 1],
     [c |-> "\r", n |-> 1], [c |-> "\n", n |-> 1],
     [c |-> "U+0001", n |-> MaxContentLength]}

Contents == UNION {[1..k -> ContentRuns] : k \in 0..MaxRuns}

\* String.prototype.length
RECURSIVE Length(_)
Length(str) == IF str = <<>> THEN 0 ELSE str[1].n + Length(Tail(str))

\* the white space String.prototype.trim removes
IsWhiteSpace(c) == c \in {" ", "\n", "\r"}

\* the characters of [\x00-\x08\x0B\x0C\x0E-\x1F\x7F]
IsControl(c) == c = "U+0001"

\* String.prototype.trim
RECURSIVE strTrimStart(_)
strTrimStart(str) ==
    IF str # <<>> /\ IsWhiteSpace(str[1].c) THEN strTrimStart(Tail(str))
    ELSE str

RECURSIVE strTrimEnd(_)
strTrimEnd(str) ==
    IF str # <<>> /\ IsWhiteSpace(str[Len(str)].c)
    THEN strTrimEnd(SubSeq(str, 1, Len(str) - 1))
    ELSE str

strTrim(str) == strTrimEnd(strTrimStart(str))

\* .replace(/[\x00-\x08\x0B\x0C\x0E-\x1F\x7F]/g, '')
RemoveControl(str) == SelectSeq(str, LAMBDA r : ~IsControl(r.c))

\* .replace(/\r\n/g, '\n').replace(/\r/g, '\n'): of a run of \r the last
\* one goes with a \n that follows it, the others become \n
RECURSIVE NormalizeLineEndings(_)
NormalizeLineEndings(str) ==
    IF str = <<>> THEN <<>>
    ELSE LET r == str[1]
             rest == NormalizeLineEndings(Tail(str))
             paired == Len(str) > 1 /\ str[2].c = "\n"
             n == IF paired THEN r.n - 1 ELSE r.n
         IN  IF r.c # "\r" THEN <<r>> \o rest
             ELSE IF n = 0 THEN rest
             ELSE <<[c |-> "\n", n |-> n]>> \o rest

sanitizeEntryContent(str) ==
    IF Length(str) = 0 THEN <<>>
    ELSE NormalizeLineEndings(RemoveControl(strTrim(str)))

\* validateEntryContent(content).errors
validateEntryContent(str) ==
    IF Length(str) = 0 \/ Length(strTrim(str)) = 0
    THEN <<"Entry content cannot be empty">>
    ELSE (IF Length(strTrim(str)) < MinContentLength
          THEN <<"Entry must be at least 10 characters long">> ELSE <<>>)
         \o (IF Length(strTrim(str)) > MaxContentLength
             THEN <<"Entry is too long (max 10,000 characters)">> ELSE <<>>)

isValid(errors) == Len(errors) = 0

\* the errors the insert can answer with
DbErrors ==
    {[code |-> "PGRST116", message |-> "no rows"],
     [code |-> "42P01", message |-> "undefined"],
     [code |-> "42501", message |-> "permission denied for entries"],
     [code |-> "PGRST301", message |-> "relation entries does not exist"],
     [code |-> "23502", message |-> "null value in column"]}

\* let userMessage = ...
SaveErrorMessage(e) ==
    IF \/ e.code = "PGRST116"
       \/ Includes(e.message, "relation")
       \/ Includes(e.message, "table")
    THEN "Database table not found. Please contact support to set up your account."
    ELSE IF e.code = "42P01"
    THEN "Database schema not initialized. Please contact support."
    ELSE IF Includes(e.message, "permission") \/ Includes(e.message, "RLS")
    THEN "Access denied. Please log in again."
    ELSE "Failed to save entry. Please try again."

\* the row the insert stores
SavedRow(i, u, t, str) ==
    [id |-> i, user_id |-> u, created_at |-> t, content |-> str]

\* saveEntry(content) is called
SaveCall(str) ==
    /\ savePc = "idle"
    /\ Len(entriesTable) < MaxSaved
    /\ savePc' = "validate"
    /\ saveContent' = str
    /\ UNCHANGED <<sanitizedContent, saveUser, saveResult>>
    /\ UNCHANGED <<pipelineVars, parseVars, modalVars, mwVars, formVars,
                   cacheVars, netVars>>

\* validateEntryContent, then sanitizeEntryContent
SaveValidate ==
    /\ savePc = "validate"
    /\ LET validation == validateEntryContent(saveContent)
       IN  IF ~isValid(validation)
           THEN /\ saveResult' = Failure(validation[1])
                /\ savePc' = "done"
                /\ UNCHANGED sanitizedContent
           ELSE /\ sanitizedContent' = sanitizeEntryContent(saveContent)
                /\ savePc' = "auth"
                /\ UNCHANGED saveResult
    /\ UNCHANGED <<saveContent, saveUser>>
    /\ UNCHANGED <<pipelineVars, parseVars, modalVars, mwVars, formVars,
                   cacheVars, netVars>>

\* supabase.auth.getUser()
SaveGetUser(outcome) ==
    /\ savePc = "auth"
    /\ IF outcome = "throw"
       THEN /\ saveResult' = Failure(MsgUnexpected)
            /\ savePc' = "done"
            /\ UNCHANGED saveUser
       ELSE IF AuthFailed(outcome, session)
       THEN /\ saveResult' = Failure(MsgAuthRequired)
            /\ savePc' = "done"
            /\ UNCHANGED saveUser
       ELSE /\ saveUser' = session
            /\ savePc' = "insert"
            /\ UNCHANGED saveResult
    /\ UNCHANGED <<saveContent, sanitizedContent>>
    /\ UNCHANGED <<pipelineVars, parseVars, modalVars, mwVars, formVars,
                   cacheVars, netVars>>

\* .from('entries').insert({user_id: user.id, content: sanitizedContent})
SaveInsert ==
    /\ savePc = "insert"
    /\ LET row == SavedRow(Len(entriesTable) + 1, saveUser, now,
                           sanitizedContent)
       IN  /\ entriesTable' = Append(entriesTable, row)
           /\ saveResult' = Success(row)
    /\ savePc' = "done"
    /\ UNCHANGED <<saveContent, sanitizedContent, saveUser>>
    /\ UNCHANGED <<now, session, apiKey, pc, op, user, endRead, range,
                   fetchedAt, fetchExit, entriesResult, period, entriesForAI,
                   prompt, storageReads, providerCalls, providerOutcome,
                   caught, result, retAt, parseVars, modalVars, mwVars,
                   formVars, cacheVars, netVars>>

\* the insert answers with an error
SaveInsertError(e) ==
    /\ savePc = "insert"
    /\ saveResult' = Failure(SaveErrorMessage(e))
    /\ savePc' = "done"
    /\ UNCHANGED <<saveContent, sanitizedContent, saveUser>>
    /\ UNCHANGED <<pipelineVars, parseVars, modalVars, mwVars, formVars,
                   cacheVars, netVars>>

\* the insert throws
SaveInsertThrow ==
    /\ savePc = "insert"
    /\ saveResult' = Failure(MsgUnexpected)
    /\ savePc' = "done"
    /\ UNCHANGED <<saveContent, sanitizedContent, saveUser>>
    /\ UNCHANGED <<pipelineVars, parseVars, modalVars, mwVars, formVars,
                   cacheVars, netVars>>

\* the promise resolves with saveResult
SaveReturn ==
    /\ savePc = "done"
    /\ savePc' = "idle"
    /\ saveContent' = <<>>
    /\ sanitizedContent' = <<>>
    /\ saveUser' = NoUser
    /\ saveResult' = Failure(None)
    /\ UNCHANGED <<pipelineVars, parseVars, modalVars, mwVars, formVars,
                   cacheVars, netVars>>

InitSave ==
    /\ now = StartNow
    /\ session \in Users \cup {NoUser}
    /\ apiKey = FALSE
    /\ entriesTable = <<>>
    /\ Idle
    /\ shape = [kind |-> "free"]
    /\ aiResponse = <<>>
    /\ parsePc = "idle"
    /\ parsed = Undefined
    /\ ModalIdle
    /\ MwIdle
    /\ ComponentsIdle

NextSave ==
    \/ \E str \in Contents : SaveCall(str)
    \/ SaveValidate
    \/ \E outcome \in {"ok", "error", "throw"} : SaveGetUser(outcome)
    \/ SaveInsert
    \/ \E e \in DbErrors : SaveInsertError(e)
    \/ SaveInsertThrow
    \/ SaveReturn

SpecSave == InitSave /\ [][NextSave]_vars

(***************************************************************************)
(* components/entries/EntryForm.tsx                                        *)
(*                                                                         *)
(* The form is rendered without onSave, onOptimisticAdd and onError, as in *)
(* its tests.  A timer or a retry keeps the content and the isOffline of   *)
(* the render that made it.                                                *)
(***************************************************************************)

\* what the user types into the text area
FormContents ==
    {<<>>,
     <<[c |-> " ", n |-> 1]>>,
     <<[c |-> "a", n |-> MinContentLength - 1]>>,
     <<[c |-> "a", n |-> MinContentLength - 1], [c |-> "a", n |-> 1]>>,
     <<[c |-> "a", n |-> MinContentLength - 1], [c |-> " ", n |-> 1],
       [c |-> "a", n |-> 1]>>}

\* !content.trim()
Blank(str) == Length(strTrim(str)) = 0

\* what saveEntry answers for a content
FormSaveResults(str) ==
    {Success(SavedRow(1, "user-123", StartNow, sanitizeEntryContent(str))),
     Failure(MsgAuthRequired)}

\* const { error: formError } = useErrorHandler(...)
formError == getErrorMessage(formErrorState, isOffline)

\* the auto-save effect for a new content, after the cleanup of the effect
\* before it has cleared the timer: the timer it leaves running
AutoSaveEffect(str, lastContent, manualSave) ==
    IF str = lastContent \/ Blank(str) THEN Null
    ELSE IF manualSave THEN Null
    ELSE [content |-> str]

\* handleContentChange, and the effect of the render that follows
TypeContent(newContent) ==
    /\ ~(formIsLoading \/ isOffline)
    /\ newContent # content
    /\ content' = newContent
    /\ validationError' = ""
    /\ autoSaveTimeoutRef' =
          AutoSaveEffect(newContent, lastContentRef, isManualSaveRef)
    /\ UNCHANGED <<lastContentRef, isManualSaveRef, formIsLoading, isSaving,
                   lastSaved, saveStatus, formErrorState, formPending,
                   statusResets>>
    /\ UNCHANGED <<pipelineVars, parseVars, modalVars, mwVars, saveVars,
                   cacheVars, netVars>>

\* handleAutoSave: the returns before the save
AutoSaveSkips(str) ==
    \/ Blank(str) \/ str = lastContentRef
    \/ ~isValid(validateEntryContent(str))

\* the auto-save timer fires: handleAutoSave up to its await
AutoSaveFires ==
    /\ autoSaveTimeoutRef # Null
    /\ Len(formPending) < MaxPending
    /\ autoSaveTimeoutRef' = Null
    /\ LET str == autoSaveTimeoutRef.content
       IN  IF AutoSaveSkips(str)
           THEN UNCHANGED <<isSaving, saveStatus, formPending>>
           ELSE /\ isSaving' = TRUE
                /\ saveStatus' = "saving"
                /\ formPending' =
                      Append(formPending,
                             [kind |-> "auto", content |-> str,
                              retry |-> FALSE])
    /\ UNCHANGED <<content, lastContentRef, isManualSaveRef, formIsLoading,
                   lastSaved, validationError, formErrorState, statusResets>>
    /\ UNCHANGED <<pipelineVars, parseVars, modalVars, mwVars, saveVars,
                   cacheVars, netVars>>

\* handleManualSave up to its await, with the content and the isOffline of
\* its closure; called by retry as onRetry, retry's clearError() follows
\* its return
handleManualSave(str, offline, viaRetry, awaited) ==
    IF Blank(str)
    THEN /\ formErrorState' = ClearedErrorState
         /\ validationError' = "Please write something before saving"
         /\ formPending' = awaited
         /\ UNCHANGED <<formIsLoading, saveStatus, isManualSaveRef,
                        autoSaveTimeoutRef>>
    ELSE IF offline
    THEN /\ formErrorState' =
               IF viaRetry THEN ClearedErrorState
               ELSE setError(ClearedErrorState,
                        "You appear to be offline. Please check your connection and try again.")
         /\ validationError' = ""
         /\ formPending' = awaited
         /\ UNCHANGED <<formIsLoading, saveStatus, isManualSaveRef,
                        autoSaveTimeoutRef>>
    ELSE IF ~isValid(validateEntryContent(str))
    THEN /\ formErrorState' = ClearedErrorState
         /\ validationError' = validateEntryContent(str)[1]
         /\ formPending' = awaited
         /\ UNCHANGED <<formIsLoading, saveStatus, isManualSaveRef,
                        autoSaveTimeoutRef>>
    ELSE /\ formErrorState' = ClearedErrorState
         /\ validationError' = ""
         /\ formIsLoading' = TRUE
         /\ saveStatus' = "saving"
         /\ isManualSaveRef' = TRUE
         /\ autoSaveTimeoutRef' = Null
         /\ formPending' =
               Append(awaited,
                      [kind |-> "manual", content |-> str, retry |-> viaRetry])

\* the Save Entry button
ClickSave ==
    /\ ~(Blank(content) \/ formIsLoading \/ isOffline
            \/ formErrorState.isRetrying)
    /\ Len(formPending) < MaxPending
    /\ handleManualSave(content, isOffline, FALSE, formPending)
    /\ UNCHANGED <<content, lastContentRef, isSaving, lastSaved, statusResets>>
    /\ UNCHANGED <<pipelineVars, parseVars, modalVars, mwVars, saveVars,
                   cacheVars, netVars>>

\* the Try Again button of ErrorDisplay: retry() up to its await of the
\* delay
ClickFormRetry ==
    /\ Truthy(formError)
    /\ canRetry(formErrorState)
    /\ Len(formPending) < MaxPending
    /\ IF RetryRefused(formErrorState)
       THEN UNCHANGED <<formErrorState, formPending>>
       ELSE /\ formErrorState' = RetryMarked(formErrorState)
            /\ formPending' =
                  Append(formPending,
                         [kind |-> "delay", content |-> content,
                          offline |-> isOffline])
    /\ UNCHANGED <<content, lastContentRef, isManualSaveRef,
                   autoSaveTimeoutRef, formIsLoading, isSaving, lastSaved,
                   validationError, saveStatus, statusResets>>
    /\ UNCHANGED <<pipelineVars, parseVars, modalVars, mwVars, saveVars,
                   cacheVars, netVars>>

\* retry() after its delay: await onRetry(), then clearError()
FormDelayElapsed(i) ==
    /\ i \in DOMAIN formPending
    /\ formPending[i].kind = "delay"
    /\ IF Blank(formPending[i].content)
       THEN /\ formErrorState' = ClearedErrorState
            /\ formPending' = Remove(formPending, i)
            /\ UNCHANGED <<validationError, formIsLoading, saveStatus,
                           isManualSaveRef, autoSaveTimeoutRef>>
       ELSE handleManualSave(formPending[i].content, formPending[i].offline,
                             TRUE, Remove(formPending, i))
    /\ UNCHANGED <<content, lastContentRef, isSaving, lastSaved, statusResets>>
    /\ UNCHANGED <<pipelineVars, parseVars, modalVars, mwVars, saveVars,
                   cacheVars, netVars>>

\* saveEntry settles with res: the rest of handleAutoSave or of
\* handleManualSave, then of retry (clearError()) if retry awaited it
FormSettle(i, res) ==
    /\ i \in DOMAIN formPending
    /\ formPending[i].kind \in {"auto", "manual"}
    /\ res \in FormSaveResults(formPending[i].content) \cup Rejections
    /\ statusResets < MaxPending
    /\ IF Succeeded(res)
       THEN /\ lastContentRef' = <<>>
            /\ lastSaved' = [time |-> now]
            /\ saveStatus' = "saved"
            /\ content' = <<>>
            /\ autoSaveTimeoutRef' =
                  IF content # <<>>
                  THEN AutoSaveEffect(<<>>, <<>>,
                                      formPending[i].kind # "manual"
                                          /\ isManualSaveRef)
                  ELSE autoSaveTimeoutRef
       ELSE /\ saveStatus' = "error"
            /\ UNCHANGED <<lastContentRef, lastSaved, content,
                           autoSaveTimeoutRef>>
    /\ IF formPending[i].kind = "auto"
       THEN /\ isSaving' = FALSE
            /\ UNCHANGED <<formErrorState, formIsLoading, isManualSaveRef>>
       ELSE /\ formErrorState' =
                  IF formPending[i].retry THEN ClearedErrorState
                  ELSE IF Succeeded(res) THEN formErrorState
                  ELSE setError(formErrorState,
                                FailureMessage(res, "Failed to save entry"))
            /\ formIsLoading' = FALSE
            /\ isManualSaveRef' = FALSE
            /\ UNCHANGED isSaving
    /\ formPending' = Remove(formPending, i)
    /\ statusResets' = statusResets + 1
    /\ UNCHANGED validationError
    /\ UNCHANGED <<pipelineVars, parseVars, modalVars, mwVars, saveVars,
                   cacheVars, netVars>>

\* setTimeout(() => setSaveStatus('idle'), 2000) comes due
StatusReset ==
    /\ statusResets > 0
    /\ statusResets' = statusResets - 1
    /\ saveStatus' = "idle"
    /\ UNCHANGED <<content, lastContentRef, isManualSaveRef,
                   autoSaveTimeoutRef, formIsLoading, isSaving, lastSaved,
                   validationError, formErrorState, formPending>>
    /\ UNCHANGED <<pipelineVars, parseVars, modalVars, mwVars, saveVars,
                   cacheVars, netVars>>

InitForm ==
    /\ now = StartNow
    /\ session = NoUser
    /\ apiKey = FALSE
    /\ entriesTable = <<>>
    /\ Idle
    /\ shape = [kind |-> "free"]
    /\ aiResponse = <<>>
    /\ parsePc = "idle"
    /\ parsed = Undefined
    /\ ModalIdle
    /\ MwIdle
    /\ ComponentsIdle

NextForm ==
    \/ \E newContent \in FormContents : TypeContent(newContent)
    \/ AutoSaveFires
    \/ ClickSave
    \/ ClickFormRetry
    \/ \E i \in 1..MaxPending : FormDelayElapsed(i)
    \/ \E i \in 1..MaxPending :
          \E res \in UNION {FormSaveResults(str) : str \in FormContents}
                        \cup Rejections :
              FormSettle(i, res)
    \/ StatusReset
    \/ GoOffline
    \/ GoOnline

SpecForm == InitForm /\ [][NextForm]_vars

(***************************************************************************)
(* lib/utils/cache.ts                                                      *)
(*                                                                         *)
(* The cache is the set of its items, one for a key at most; Date.now() is *)
(* the clock now, and a ttl is a number of ticks.                          *)
(***************************************************************************)

\* items the cache holds at once
MaxItems == 2

\* the ttlMs the callers pass
TTLs == {0, 1}

\* what a cached function answers: a value, or null
CacheValues == {"v1", NullString}

\* cacheKeys
userEntriesKey(userId, limit) ==
    "entries:" \o userId \o (IF limit # 0 THEN ":" \o ToString(limit) ELSE "")

weeklyEntriesKey(userId, startDate) ==
    "weekly:" \o userId \o ":" \o startDate

userProfileKey(userId) == "profile:" \o userId

weeklySummaryKey(userId, weekStart) ==
    "summary:" \o userId \o ":" \o weekStart

\* the keys the generators give, each with its kind and its user
KeyTable ==
    {[key |-> userEntriesKey(u, 0), kind |-> "entries", userId |-> u] :
        u \in Users}
    \cup {[key |-> userEntriesKey("user-123", 10), kind |-> "entries",
           userId |-> "user-123"],
          [key |-> weeklyEntriesKey("user-123", "2024-01-08"),
           kind |-> "weekly", userId |-> "user-123"],
          [key |-> userProfileKey("different-user-456"), kind |-> "profile",
           userId |-> "different-user-456"]}
    \cup {[key |-> weeklySummaryKey(u, "2024-01-08"), kind |-> "summary",
           userId |-> u] : u \in Users}

CacheKeys == {k.key : k \in KeyTable}

\* this.cache.get(key): the item of the key, or Null
ItemOf(c, key) ==
    IF \E item \in c : item.key = key
    THEN CHOOSE item \in c : item.key = key
    ELSE Null

\* this.cache.delete(key)
MapDelete(c, key) == {item \in c : item.key # key}

\* this.cache.set(key, { data, timestamp: Date.now(), ttl: ttlMs })
MapSet(c, key, data, t, ttlMs) ==
    MapDelete(c, key)
        \cup {[key |-> key, data |-> data, timestamp |-> t, ttl |-> ttlMs]}

\* variant: an item is given one tick more than its ttl
isExpiredLate(item, t) == t - item.timestamp > item.ttl + 1

\* Date.now() - item.timestamp > item.ttl
isExpired(item, t) == t - item.timestamp > item.ttl

\* MemoryCache.get at time t: what it returns and the cache it leaves
MemoryGet(c, key, t) ==
    LET item == ItemOf(c, key)
    IN  IF item = Null
        THEN [returned |-> NullString, item |-> Null, cache |-> c]
        ELSE IF isExpired(item, t)
        THEN [returned |-> NullString, item |-> item,
              cache |-> MapDelete(c, key)]
        ELSE [returned |-> item.data, item |-> item, cache |-> c]

\* memoryCache.set(key, data, ttlMs)
CacheSet(key, data, ttlMs) ==
    /\ ItemOf(cache, key) # Null \/ Cardinality(cache) < MaxItems
    /\ cache' = MapSet(cache, key, data, now, ttlMs)
    /\ cacheCall' = [op |-> "set"]
    /\ UNCHANGED cachePending
    /\ UNCHANGED <<pipelineVars, parseVars, modalVars, mwVars, saveVars,
                   formVars, netVars>>

\* memoryCache.get(key)
CacheGet(key) ==
    /\ LET got == MemoryGet(cache, key, now)
       IN  /\ cache' = got.cache
           /\ cacheCall' = [op |-> "get", key |-> key,
                            returned |-> got.returned]
    /\ UNCHANGED cachePending
    /\ UNCHANGED <<pipelineVars, parseVars, modalVars, mwVars, saveVars,
                   formVars, netVars>>

\* memoryCache.delete(key)
CacheDelete(key) ==
    /\ cache' = MapDelete(cache, key)
    /\ cacheCall' = [op |-> "delete"]
    /\ UNCHANGED cachePending
    /\ UNCHANGED <<pipelineVars, parseVars, modalVars, mwVars, saveVars,
                   formVars, netVars>>

\* memoryCache.clear(), invalidateCache.all()
CacheClear ==
    /\ cache' = {}
    /\ cacheCall' = [op |-> "clear"]
    /\ UNCHANGED cachePending
    /\ UNCHANGED <<pipelineVars, parseVars, modalVars, mwVars, saveVars,
                   formVars, netVars>>

\* memoryCache.cleanup(), every 10 minutes
CacheCleanup ==
    /\ cache' = {item \in cache : ~(now - item.timestamp > item.ttl)}
    /\ cacheCall' = [op |-> "cleanup"]
    /\ UNCHANGED cachePending
    /\ UNCHANGED <<pipelineVars, parseVars, modalVars, mwVars, saveVars,
                   formVars, netVars>>

\* variant: the keys of every user's entries
userEntriesMatchesAnyUser(key, userId) ==
    startsWith(key, "entries:") \/ startsWith(key, "weekly:")

\* invalidateCache.userEntries: the test of a key
userEntriesMatches(key, userId) ==
    \/ startsWith(key, "entries:" \o userId)
    \/ startsWith(key, "weekly:" \o userId)

\* invalidateCache.weeklySummary: the test of a key
weeklySummaryMatches(key, userId) == startsWith(key, "summary:" \o userId)

\* invalidateCache.userEntries(userId)
InvalidateUserEntries(userId) ==
    /\ LET keysToDelete ==
               {item.key : item \in
                   {it \in cache : userEntriesMatches(it.key, userId)}}
       IN  /\ cache' = {item \in cache : item.key \notin keysToDelete}
           /\ cacheCall' = [op |-> "invalidateCache.userEntries",
                            userId |-> userId, keysToDelete |-> keysToDelete]
    /\ UNCHANGED cachePending
    /\ UNCHANGED <<pipelineVars, parseVars, modalVars, mwVars, saveVars,
                   formVars, netVars>>

\* invalidateCache.weeklySummary(userId)
InvalidateWeeklySummary(userId) ==
    /\ LET keysToDelete ==
               {item.key : item \in
                   {it \in cache : weeklySummaryMatches(it.key, userId)}}
       IN  /\ cache' = {item \in cache : item.key \notin keysToDelete}
           /\ cacheCall' = [op |-> "invalidateCache.weeklySummary",
                            userId |-> userId, keysToDelete |-> keysToDelete]
    /\ UNCHANGED cachePending
    /\ UNCHANGED <<pipelineVars, parseVars, modalVars, mwVars, saveVars,
                   formVars, netVars>>

\* a function wrapped by withCache is called: up to its return of the
\* cached value or its await of fn
WithCacheCall(key, ttlMs) ==
    /\ LET got == MemoryGet(cache, key, now)
       IN  /\ cache' = got.cache
           /\ IF got.returned # NullString
              THEN /\ cacheCall' = [op |-> "withCache", key |-> key,
                                    returned |-> got.returned]
                   /\ UNCHANGED cachePending
              ELSE /\ Len(cachePending) < MaxPending
                   /\ cachePending' =
                         Append(cachePending, [key |-> key, ttl |-> ttlMs])
                   /\ cacheCall' = [op |-> "fn", key |-> key]
    /\ UNCHANGED <<pipelineVars, parseVars, modalVars, mwVars, saveVars,
                   formVars, netVars>>

\* fn resolves with data: memoryCache.set(key, result, ttlMs), return
FnResolves(i, data) ==
    /\ i \in DOMAIN cachePending
    /\ \/ ItemOf(cache, cachePending[i].key) # Null
       \/ Cardinality(cache) < MaxItems
    /\ cache' = MapSet(cache, cachePending[i].key, data, now,
                       cachePending[i].ttl)
    /\ cachePending' = Remove(cachePending, i)
    /\ cacheCall' = [op |-> "withCache", key |-> cachePending[i].key,
                     returned |-> data]
    /\ UNCHANGED <<pipelineVars, parseVars, modalVars, mwVars, saveVars,
                   formVars, netVars>>

\* fn rejects: the wrapper rejects, nothing is stored
FnRejects(i) ==
    /\ i \in DOMAIN cachePending
    /\ cachePending' = Remove(cachePending, i)
    /\ cacheCall' = [op |-> "rejected", key |-> cachePending[i].key]
    /\ UNCHANGED cache
    /\ UNCHANGED <<pipelineVars, parseVars, modalVars, mwVars, saveVars,
                   formVars, netVars>>

InitCache ==
    /\ now = StartNow
    /\ session = NoUser
    /\ apiKey = FALSE
    /\ entriesTable = <<>>
    /\ Idle
    /\ shape = [kind |-> "free"]
    /\ aiResponse = <<>>
    /\ parsePc = "idle"
    /\ parsed = Undefined
    /\ ModalIdle
    /\ MwIdle
    /\ ComponentsIdle

NextCache ==
    \/ Tick
    \/ \E key \in CacheKeys, ttlMs \in TTLs : CacheSet(key, "v1", ttlMs)
    \/ \E key \in CacheKeys : CacheGet(key)
    \/ \E key \in CacheKeys : CacheDelete(key)
    \/ CacheClear
    \/ CacheCleanup
    \/ \E userId \in Users : InvalidateUserEntries(userId)
    \/ \E userId \in Users : InvalidateWeeklySummary(userId)

SpecCache == InitCache /\ [][NextCache]_vars

\* the keys of one wrapped function: withCache(fn, cacheKeys.userEntries)
WrappedKeys == {userEntriesKey(u, 0) : u \in Users}

\* one function wrapped by withCache with a ttl of one tick, called by
\* several callers
NextWithCache ==
    \/ Tick
    \/ \E key \in WrappedKeys : WithCacheCall(key, 1)
    \/ \E i \in 1..MaxPending, data \in CacheValues : FnResolves(i, data)
    \/ \E i \in 1..MaxPending : FnRejects(i)

SpecWithCache == InitCache /\ [][NextWithCache]_vars

(***************************************************************************)
(* hooks/useNetworkStatus.ts                                               *)
(*                                                                         *)
(* The browser changes navigator.onLine and queues the online or offline   *)
(* event; the event's listeners run when the event is dispatched.          *)
(***************************************************************************)

\* events queued and not yet dispatched, and reset timers running
MaxEvents == 4

\* what the hook returns
NetworkStatus ==
    [isOnline |-> isOnline, isOffline |-> ~isOnline, wasOffline |-> wasOffline]

\* the effect: setIsOnline(navigator.onLine), addEventListener
NetMount ==
    /\ ~netMounted
    /\ netMounted' = TRUE
    /\ isOnline' = navigatorOnLine
    /\ UNCHANGED <<navigatorOnLine, wasOffline, netEvents, wasOfflineTimers,
                   lastEvent>>
    /\ UNCHANGED <<pipelineVars, parseVars, modalVars, mwVars, saveVars,
                   formVars, cacheVars>>

\* OfflineIndicator: what it renders
OfflineIndicator(showOnlineMessage) ==
    IF NetworkStatus.isOffline THEN "offline"
    ELSE IF NetworkStatus.wasOffline /\ showOnlineMessage THEN "back online"
    ELSE "nothing"

\* the connection is lost: navigator.onLine turns false and the offline
\* event is queued
ConnectionLost ==
    /\ navigatorOnLine
    /\ Len(netEvents) < MaxEvents
    /\ navigatorOnLine' = FALSE
    /\ netEvents' = Append(netEvents, "offline")
    /\ UNCHANGED <<isOnline, wasOffline, wasOfflineTimers, netMounted,
                   lastEvent>>
    /\ UNCHANGED <<pipelineVars, parseVars, modalVars, mwVars, saveVars,
                   formVars, cacheVars>>

\* the connection is back: navigator.onLine turns true and the online
\* event is queued
ConnectionBack ==
    /\ ~navigatorOnLine
    /\ Len(netEvents) < MaxEvents
    /\ navigatorOnLine' = TRUE
    /\ netEvents' = Append(netEvents, "online")
    /\ UNCHANGED <<isOnline, wasOffline, wasOfflineTimers, netMounted,
                   lastEvent>>
    /\ UNCHANGED <<pipelineVars, parseVars, modalVars, mwVars, saveVars,
                   formVars, cacheVars>>

\* handleOnline: if (!navigator.onLine)
Recovered(online) == ~online

\* the oldest queued event is dispatched: handleOnline or handleOffline,
\* if the hook listens
DispatchEvent ==
    /\ netEvents # <<>>
    /\ netEvents' = Tail(netEvents)
    /\ lastEvent' = IF netMounted THEN Head(netEvents) ELSE lastEvent
    /\ IF ~netMounted
       THEN UNCHANGED <<isOnline, wasOffline, wasOfflineTimers>>
       ELSE IF Head(netEvents) = "offline"
       THEN /\ isOnline' = FALSE
            /\ UNCHANGED <<wasOffline, wasOfflineTimers>>
       ELSE /\ isOnline' = TRUE
            /\ IF Recovered(navigatorOnLine)
               THEN /\ wasOfflineTimers < MaxEvents
                    /\ wasOffline' = TRUE
                    /\ wasOfflineTimers' = wasOfflineTimers + 1
               ELSE UNCHANGED <<wasOffline, wasOfflineTimers>>
    /\ UNCHANGED <<navigatorOnLine, netMounted>>
    /\ UNCHANGED <<pipelineVars, parseVars, modalVars, mwVars, saveVars,
                   formVars, cacheVars>>

\* setTimeout(() => setWasOffline(false), 3000) comes due
WasOfflineTimeout ==
    /\ wasOfflineTimers > 0
    /\ wasOfflineTimers' = wasOfflineTimers - 1
    /\ wasOffline' = FALSE
    /\ UNCHANGED <<navigatorOnLine, isOnline, netEvents, netMounted,
                   lastEvent>>
    /\ UNCHANGED <<pipelineVars, parseVars, modalVars, mwVars, saveVars,
                   formVars, cacheVars>>

InitNetwork ==
    /\ now = StartNow
    /\ session = NoUser
    /\ apiKey = FALSE
    /\ entriesTable = <<>>
    /\ Idle
    /\ shape = [kind |-> "free"]
    /\ aiResponse = <<>>
    /\ parsePc = "idle"
    /\ parsed = Undefined
    /\ ModalIdle
    /\ MwIdle
    /\ SaveIdle
    /\ FormIdle
    /\ CacheIdle
    /\ navigatorOnLine \in BOOLEAN
    /\ isOnline = TRUE
    /\ wasOffline = FALSE
    /\ netEvents = <<>>
    /\ wasOfflineTimers = 0
    /\ netMounted = FALSE
    /\ lastEvent = None

NextNetwork ==
    \/ NetMount
    \/ ConnectionLost
    \/ ConnectionBack
    \/ DispatchEvent
    \/ WasOfflineTimeout

SpecNetwork == InitNetwork /\ [][NextNetwork]_vars

(***************************************************************************)
(* Properties of the pipeline (specification Spec).                        *)
(***************************************************************************)
Returned == pc = "done"

\* the rows of the table the query of this invocation selects
Selected == {i \in DOMAIN entriesTable : Matches(entriesTable[i], user, range)}

FetchedAtLeastFive ==
    /\ fetchExit = "ok"
    /\ entriesResult.success
    /\ Len(entriesResult.data) >= 5

\* C1: the provider is called only after the fetch of the same invocation
\* returned at least 5 entries, and a WeeklySummary is returned only from
\* such an invocation
C1_NoProviderBelowFive ==
    /\ (providerCalls > 0 \/ pc = "provider") => FetchedAtLeastFive
    /\ (Returned /\ op = "generate" /\ result.success) =>
            (FetchedAtLeastFive /\ providerCalls > 0)

C1_Witness ==
    /\ Returned
    /\ op = "generate"
    /\ fetchExit = "ok"
    /\ Len(entriesResult.data) = 4
    /\ providerCalls = 0
    /\ ~result.success

\* C2: for every number n of entries the storage read returns,
\* canGenerateWeeklySummary succeeds with entryCount = n and
\* canGenerate = (n >= 5)
C2_EligibilityThreshold ==
    (Returned /\ op = "canGenerate" /\ fetchExit = "ok") =>
        /\ result.success
        /\ HasData(result)
        /\ result.data.entryCount = Cardinality(Selected)
        /\ result.data.canGenerate = (Cardinality(Selected) >= 5)

C2_Witness ==
    /\ Returned
    /\ op = "canGenerate"
    /\ fetchExit = "ok"
    /\ Cardinality(Selected) = 5
    /\ result.data.canGenerate

\* C3: when the storage read fails, both server actions return a failure
\* with the storage error, without data and without a call of the provider
C3_StorageFailurePropagates ==
    fetchExit \in {"db_error", "threw"} =>
        /\ providerCalls = 0
        /\ pc \in {"fetched", "done"}
        /\ Returned =>
              /\ ~result.success
              /\ ~HasData(result)
              /\ HasError(result)
              /\ fetchExit = "db_error" => result.error = MsgFetchFailed

C3_Witness ==
    /\ Returned
    /\ op = "generate"
    /\ fetchExit = "db_error"
    /\ result.error = MsgFetchFailed
    /\ Len(entriesTable) >= 5

\* C4: a refusal for too few entries carries the number of entries the
\* same invocation found in the window
C4_RefusalCarriesCount ==
    (Returned /\ retAt = "too_few") =>
        /\ Cardinality(Selected) \in 0..4
        /\ ~result.success
        /\ result.error =
              "You need at least 5 journal entries from the last 7 days to generate a summary. You currently have "
                \o ToString(Cardinality(Selected)) \o " entries."

C4_Witness ==
    /\ Returned
    /\ retAt = "too_few"
    /\ Cardinality(Selected) = 3
    /\ result.error = MsgNeedMore(3)

\* what a caller sees of an ApiResponse without reading its message
Kind(r) == [success |-> r.success, hasData |-> HasData(r), hasError |-> HasError(r)]

\* the results generateWeeklySummaryAction returns for auth, storage and
\* provider failures
OtherFailures ==
    {Failure(MsgAuthRequired), Failure(MsgFetchFailed), Failure(MsgUnexpected)}
    \cup {CatchResult(Classify(m)) : m \in ProviderMessages}
    \cup {CatchResult(ErrMissingKey), CatchResult(ErrEmptyResponse)}

\* C5: the result returned for an eligibility failure differs in kind, the
\* message string aside, from the results returned for storage, auth and
\* provider failures
C5_EligibilityDistinctByKind ==
    (Returned /\ op = "generate" /\ retAt = "too_few") =>
        \A r \in OtherFailures : Kind(result) # Kind(r)

\* C6: when the provider returns an empty string, the action fails with a
\* provider error of code EMPTY_RESPONSE and returns no WeeklySummary
C6_EmptyResponseFails ==
    (Returned /\ providerOutcome.kind = "text" /\ providerOutcome.text = <<>>) =>
        /\ ~result.success
        /\ ~HasData(result)
        /\ HasError(result)
        /\ retAt = "gemini_error"
        /\ caught.name = "GeminiAPIError"
        /\ caught.code = "EMPTY_RESPONSE"

C6_Witness ==
    /\ Returned
    /\ providerCalls = 1
    /\ providerOutcome = [kind |-> "text", text |-> <<>>]
    /\ ~result.success

\* the window of calendar days: from the start of the day SummaryDays days
\* before t to the end of the day of t
DayWindow(t) ==
    [start |-> StartOfDay(t - SummaryDays * TicksPerDay), end |-> EndOfDay(t)]

\* the interval of instants [t - 7 days, t]
ExactWindow(t) == [start |-> t - SummaryDays * TicksPerDay, end |-> t]

Within(t, w) == w.start <= t /\ t <= w.end

FetchOk == fetchExit = "ok" /\ pc \in {"fetched", "fmt_end", "fmt_start", "gen", "provider", "done"}

\* the created_at of the entries the prompt embeds (content identifies a row)
PromptTimes ==
    {entriesTable[i].created_at :
        i \in {j \in DOMAIN entriesTable :
                 \E k \in DOMAIN prompt.entries :
                    prompt.entries[k].content = entriesTable[j].content}}

\* C7 as stated: no entry created outside [now - 7 days, now] is counted or
\* passed to the prompt
C7_ExactWindowOnly ==
    FetchOk =>
        \A i \in DOMAIN entriesResult.data :
            Within(entriesResult.data[i].created_at, ExactWindow(fetchedAt))

\* C7 amended: no entry created outside the window of calendar days (start of
\* the day 7 days before now .. end of the day of now) is counted by
\* canGenerateWeeklySummary or passed to the prompt
C7_DayWindowOnly ==
    FetchOk =>
        /\ \A i \in DOMAIN entriesResult.data :
              /\ Within(entriesResult.data[i].created_at, DayWindow(fetchedAt))
              /\ entriesResult.data[i].user_id = user
        /\ (Returned /\ op = "canGenerate") =>
              result.data.entryCount <=
                 Cardinality({i \in DOMAIN entriesTable :
                    /\ entriesTable[i].user_id = user
                    /\ Within(entriesTable[i].created_at, DayWindow(fetchedAt))})
        /\ providerCalls > 0 =>
              \A t \in PromptTimes : Within(t, DayWindow(fetchedAt))

C7_Witness ==
    /\ Returned
    /\ op = "canGenerate"
    /\ fetchExit = "ok"
    /\ result.data.entryCount = 2
    /\ \E i \in DOMAIN entriesTable :
          /\ entriesTable[i].user_id = user
          /\ entriesTable[i].created_at < DayWindow(fetchedAt).start
    /\ \E i \in DOMAIN entriesTable :
          /\ entriesTable[i].user_id = user
          /\ Within(entriesTable[i].created_at, DayWindow(fetchedAt))
          /\ ~Within(entriesTable[i].created_at, ExactWindow(fetchedAt))

Has(text, marker) == \E i \in DOMAIN text : text[i] = marker

\* C9: parseAIResponse returns for every non-empty text, and a section
\* whose marker is absent takes its sentinel: 'No summary available',
\* 'No theme identified', no insights
C9_ParseTotalWithSentinels ==
    parsePc = "returned" =>
        /\ DOMAIN parsed = {"summary", "theme", "insights", "period"}
        /\ ~Has(aiResponse, WeeklySummaryMarker) =>
              parsed.summary = <<"No summary available">>
        /\ ~Has(aiResponse, KeyThemeMarker) =>
              parsed.theme = <<"No theme identified">>
        /\ ~Has(aiResponse, InsightsMarker) => parsed.insights = <<>>

C9_Witness ==
    /\ parsePc = "returned"
    /\ aiResponse = <<WeeklySummaryMarker, " ", "a">>
    /\ parsed.summary = <<"a">>
    /\ parsed.theme = NoTheme
    /\ parsed.insights = <<>>

\* C10: for an answer in the layout of the prompt (the three markers in
\* order, non-empty bodies, k >= 1 bullets) parsing returns the summary body,
\* the theme body and exactly the k bullet texts in order
C10_LayoutParsesBack ==
    (parsePc = "returned" /\ shape.kind = "layout") =>
        /\ parsed.summary = shape.summary
        /\ parsed.theme = shape.theme
        /\ parsed.insights =
              [i \in 1..Len(shape.bullets) |-> shape.bullets[i].text]

\* ---------------------------------------------------------------------------
\* provider failures (C11, C12)

\* the provider call of this invocation threw, and the action has returned
ProviderFailed == Returned /\ providerOutcome.kind = "error"

RateWords(m) == Includes(m, "quota") \/ Includes(m, "rate")
NetworkWords(m) == Includes(m, "network") \/ Includes(m, "fetch")
AuthWords(m) == Includes(m, "auth") \/ Includes(m, "key")

\* C11 as stated: each keyword group on its own decides the category of a
\* provider failure, whatever else the message contains.
C11_CategoryByKeyword ==
    ProviderFailed =>
        LET m == providerOutcome.message
        IN  /\ RateWords(m) => caught.code = "RATE_LIMIT"
            /\ NetworkWords(m) => caught.code = "NETWORK_ERROR"
            /\ AuthWords(m) => caught.code = "AUTH_ERROR"
            /\ (~RateWords(m) /\ ~NetworkWords(m) /\ ~AuthWords(m)) =>
                    caught.code = "UNKNOWN_ERROR"

\* C11 amended: the keyword groups are tried in the order rate, network,
\* auth, and the first group with a keyword in the message decides the one
\* category; a "rate limit exceeded" message makes the action fail as
\* RATE_LIMIT.
C11_CategoryByFirstKeyword ==
    ProviderFailed =>
        LET m == providerOutcome.message
        IN  /\ caught.name = "GeminiAPIError"
            /\ caught.code =
                    IF RateWords(m) THEN "RATE_LIMIT"
                    ELSE IF NetworkWords(m) THEN "NETWORK_ERROR"
                    ELSE IF AuthWords(m) THEN "AUTH_ERROR"
                    ELSE "UNKNOWN_ERROR"
            /\ Includes(m, "rate limit exceeded") =>
                    /\ caught.code = "RATE_LIMIT"
                    /\ ~result.success
            /\ providerCalls = 1

C11_Witness ==
    /\ ProviderFailed
    /\ providerOutcome.message = "rate limit exceeded"
    /\ caught.code = "RATE_LIMIT"
    /\ result = Failure("Failed to generate weekly summary. Too many requests. Please try again in a few minutes.")

\* the provider error categories of the specification, by their codes
ProviderCategories ==
    {"MISSING_API_KEY", "RATE_LIMIT", "AUTH_ERROR", "NETWORK_ERROR",
     "EMPTY_RESPONSE", "UNKNOWN_ERROR"}

\* C12: the message returned for a provider error of one category differs
\* from the message returned for every other category.
C12_MessagePerCategory ==
    (Returned /\ retAt = "gemini_error" /\ caught.code \in ProviderCategories) =>
        \A c \in ProviderCategories \ {caught.code} :
            result.error # CatchResult(GeminiAPIError("", c)).error

\* ---------------------------------------------------------------------------
\* the period of a summary (C13)

\* C13: the period of a returned summary is the formatted start and end of
\* the window the entries of that summary were selected with, also when the
\* clock advances between the fetch and the formatting.
C13_PeriodOfFetchWindow ==
    (Returned /\ op = "generate" /\ result.success) =>
        result.data.period = [start |-> formatDate(range.start),
                              end |-> formatDate(range.end)]

\* ---------------------------------------------------------------------------
\* ownership (C14)

\* the table with the rows of every user but u erased
OwnRows(table, u) == SelectSeq(table, LAMBDA r : r.user_id = u)

\* what the query of this invocation gives on the erased table
OwnEntries == WeeklyQuery(OwnRows(entriesTable, session), session, range)

\* the rows of the table in the queried window, of any user
InWindow == {i \in DOMAIN entriesTable : Within(entriesTable[i].created_at, range)}

\* C14: checkEligibility and generateSummary read only the entries of the
\* authenticated user: the fetched rows, the returned count, the refusal
\* message and the prompt are what they are on the table with every other
\* user's rows erased, and the summary is made of the provider's text and the
\* period alone.
C14_OnlyOwnEntries ==
    /\ user # None => user = session
    /\ fetchExit = "ok" =>
          /\ entriesResult.data = OwnEntries
          /\ \A i \in DOMAIN entriesResult.data :
                entriesResult.data[i].user_id = session
    /\ (Returned /\ retAt = "check_ok") =>
          result.data = Eligibility(OwnEntries)
    /\ (Returned /\ retAt = "too_few") =>
          result = Failure(MsgNeedMore(Len(OwnEntries)))
    /\ providerCalls > 0 =>
          prompt = formatJournalPrompt(ForAI(OwnEntries), period.start, period.end)
    /\ (Returned /\ retAt = "ok") =>
          LET aiSummary == parseAIResponse(providerOutcome.text, period.start,
                                           period.end)
          IN  result.data = [summary |-> aiSummary.summary,
                             theme |-> aiSummary.theme,
                             insights |-> aiSummary.insights,
                             period |-> period]

\* another user's entry in the window would have made the fifth entry
C14_Witness ==
    /\ Returned
    /\ op = "generate"
    /\ session = "user-123"
    /\ Cardinality(InWindow) = 5
    /\ \E i \in InWindow : entriesTable[i].user_id = "different-user-456"
    /\ Len(OwnEntries) = 4
    /\ result = Failure(MsgNeedMore(4))
    /\ providerCalls = 0

\* ---------------------------------------------------------------------------
\* authentication (C15)

\* the auth lookup of this invocation has returned and gave an error or no
\* user
NoAuth ==
    \/ fetchExit = "auth"
    \/ session = NoUser /\ pc \notin {"idle", "auth"} /\ fetchExit # "threw"

\* C15: without an authenticated user, or when the auth lookup gives an
\* error, checkEligibility and generateSummary fail with "Authentication
\* required" and make no storage read and no provider call.
C15_NoAuthNoReads ==
    NoAuth =>
        /\ fetchExit = "auth"
        /\ pc \in {"fetched", "done"}
        /\ storageReads = 0
        /\ providerCalls = 0
        /\ Returned => result = Failure("Authentication required")

C15_Witness ==
    /\ Returned
    /\ op = "generate"
    /\ session = NoUser
    /\ fetchExit = "auth"
    /\ storageReads = 0
    /\ providerCalls = 0
    /\ result = Failure(MsgAuthRequired)

\* ---------------------------------------------------------------------------
\* results at the boundary (C16)

\* an ApiResponse that is a success with data or a failure with a message
WellFormed(r) ==
    \/ r.success /\ HasData(r) /\ ~HasError(r)
    \/ ~r.success /\ HasError(r) /\ r.error # "" /\ r.error # None /\ ~HasData(r)

\* C16: whatever the auth lookup, the select and the provider do, throwing
\* included, generateSummary and checkEligibility end by returning a result
\* that is a success with data or a failure with a non-empty message, never
\* both and never neither; an exception is turned into such a result.
C16_ResultWellFormed ==
    /\ pc = "fetched" => WellFormed(entriesResult)
    /\ fetchExit = "threw" => pc \in {"fetched", "done"}
    /\ providerOutcome.kind = "error" => Returned
    /\ Returned =>
          /\ WellFormed(result)
          /\ result.success <=> retAt \in {"check_ok", "ok"}

C16_Witness ==
    /\ Returned
    /\ op = "generate"
    /\ providerOutcome = [kind |-> "error", message |-> "internal error"]
    /\ ~result.success
    /\ WellFormed(result)

\* ---------------------------------------------------------------------------
\* one provider call per invocation (C17)

\* C17: one invocation of generateSummary calls the provider at most once;
\* when the provider call fails the action returns the failure, with that one
\* call made.
C17_AtMostOneProviderCall ==
    /\ providerCalls <= 1
    /\ pc = "provider" => providerCalls = 1
    /\ providerOutcome.kind = "error" =>
          /\ Returned
          /\ providerCalls = 1
          /\ retAt = "gemini_error"
          /\ ~result.success

C17_Witness ==
    /\ Returned
    /\ providerOutcome = [kind |-> "error", message |-> "network unreachable"]
    /\ caught.code = "NETWORK_ERROR"
    /\ providerCalls = 1
    /\ ~result.success

\* ---------------------------------------------------------------------------
\* a provider that never responds (C18)

\* C18: an invocation waiting for the provider eventually returns to its
\* caller, also when the provider never responds.
C18_PendingEventuallyReturns == (pc = "provider") ~> Returned

\* ---------------------------------------------------------------------------
\* the retry limit of the modal (C19)

\* C19: in the modal the retry count never exceeds 3, no more than 3 retries
\* are started for an error that keeps failing, and once 3 have been
\* started and the error is shown again no retry is offered.
C19_AtMostThreeRetries ==
    /\ errorState.retryCount <= maxRetries
    /\ retriesStarted <= maxRetries
    /\ (retriesStarted = maxRetries /\ View = "error"
            /\ ~errorState.isRetrying) => ~canRetry(errorState)

\* ---------------------------------------------------------------------------
\* route protection (C20)

\* the routes that need no authentication
PublicRoutes == {"/login", "/signup", "/forgot-password", "/"}

\* updateSession has answered a request for a route that is not public
AnsweredNonPublic ==
    /\ mwPc = "responded"
    /\ mwResponse.kind \in {"next", "redirect"}
    /\ request \notin PublicRoutes

\* C20: a request for a route that is not public is redirected to /login
\* when it is unauthenticated and let through when it is authenticated.
C20_NonPublicNeedsAuth ==
    AnsweredNonPublic =>
        IF mwUser = NoUser THEN mwResponse = Redirect("/login")
        ELSE mwResponse = [kind |-> "next"]

(***************************************************************************)
(* C21: every entry saveEntry inserts has a content that is not empty      *)
(* after trimming and belongs to the authenticated caller, and a content   *)
(* that validateEntryContent rejects is never inserted.                    *)
(***************************************************************************)
\* the rows saveEntry inserted
SavedRows == {entriesTable[i] : i \in 1..Len(entriesTable)}

\* the call passed validation
SavePassedValidation ==
    savePc \in {"auth", "insert"} \/ (savePc = "done" /\ saveResult.success)

C21_RejectedNeverInserted ==
    SavePassedValidation => isValid(validateEntryContent(saveContent))

C21_SavedBelongsToCaller ==
    \A row \in SavedRows : row.user_id = session /\ session # NoUser

C21_SavedContentNotEmpty ==
    /\ C21_RejectedNeverInserted
    /\ C21_SavedBelongsToCaller
    /\ \A row \in SavedRows : Length(strTrim(row.content)) > 0

(***************************************************************************)
(* C22: in EntryForm a given piece of typed content is sent to saveEntry   *)
(* at most once: a manual save cancels the pending auto-save, and an       *)
(* auto-save and a manual save are never both issued for the same content. *)
(***************************************************************************)
\* the saves of the given kind the form is awaiting
FormSaves(kind) ==
    {i \in DOMAIN formPending : formPending[i].kind = kind}

C22_ManualCancelsAutoSave ==
    isManualSaveRef => autoSaveTimeoutRef = Null

C22_NeverAutoAndManual ==
    \A i \in FormSaves("auto") : \A j \in FormSaves("manual") :
        formPending[i].content # formPending[j].content

(***************************************************************************)
(* C23: while the network status is offline EntryForm never calls          *)
(* saveEntry, neither by a manual save nor by an auto-save scheduled       *)
(* before, and WeeklySummaryModal never calls canGenerateWeeklySummary or  *)
(* generateWeeklySummaryAction.                                            *)
(***************************************************************************)
\* the calls of the given kinds among the promises awaited
Awaited(seq, kinds) ==
    Cardinality({i \in DOMAIN seq : seq[i].kind \in kinds})

\* the step calls saveEntry
SaveEntryCalled ==
    Awaited(formPending', {"auto", "manual"})
        > Awaited(formPending, {"auto", "manual"})

\* the step calls one of the modal's two server actions
ServerActionCalled ==
    Awaited(pending', {"check", "generate"})
        > Awaited(pending, {"check", "generate"})

C23_NoServerActionWhileOffline == [][isOffline => ~ServerActionCalled]_vars

C23_NoSaveWhileOffline == [][isOffline => ~SaveEntryCalled]_vars

(***************************************************************************)
(* C24: withCache makes the underlying read at most once for a key within  *)
(* the TTL, calls started while the first is in flight included.           *)
(***************************************************************************)
C24_OneReadInFlightPerKey ==
    \A i, j \in DOMAIN cachePending :
        i # j => cachePending[i].key # cachePending[j].key

(***************************************************************************)
(* C27: MemoryCache.get never returns a value older than its TTL.          *)
(***************************************************************************)
\* the step is a call of get that returns a value
GetReturnsValue ==
    /\ cacheCall'.op = "get"
    /\ cacheCall'.returned # NullString
    /\ now' = now

\* the item a get has just answered from
ReturnedItem == ItemOf(cache, cacheCall.key)

KeyEntry(key) == CHOOSE k \in KeyTable : k.key = key

\* the items keyed for the user by the generators of the kinds
ItemsOf(c, userId, kinds) ==
    {item \in c : /\ KeyEntry(item.key).userId = userId
                  /\ KeyEntry(item.key).kind \in kinds}

\* the step is a call of the invalidation for the user
Invalidates(called, userId) ==
    /\ cacheCall'.op = called
    /\ cacheCall'.userId = userId
    /\ now' = now

RetryFails ==
    /\ isOpen
    /\ retriesStarted > 0
    /\ retriesStarted' = retriesStarted
    /\ \E i \in DOMAIN pending :
          /\ pending[i].kind \in {"check", "generate"}
          /\ pending[i].retry
          /\ pending' = Remove(pending, i)

C25_FailedRetryKeepsError ==
    [][RetryFails =>
        Truthy(errorState'.error) /\ errorState'.retryCount > 0]_vars

(***************************************************************************)
(* C26: after the modal is closed its summary, error and eligibility are   *)
(* empty and stay empty until it is reopened, also when a request started  *)
(* before the close completes after it.                                    *)
(***************************************************************************)
C26_ClosedStaysEmpty ==
    ~isOpen =>
        /\ summary = Null
        /\ eligibility = Null
        /\ ~Truthy(errorState.error)

(***************************************************************************)
(* C29: in useNetworkStatus isOffline is always the negation of isOnline,  *)
(* and after an offline event followed by an online event wasOffline       *)
(* becomes true and is reset to false 3 seconds later.                     *)
(***************************************************************************)
C29_OfflineIsNotOnline == NetworkStatus.isOffline = ~NetworkStatus.isOnline

\* the step runs handleOnline in a hook whose last event was the offline
\* event
OnlineAfterOffline ==
    /\ netMounted
    /\ lastEvent = "offline"
    /\ netEvents # <<>>
    /\ Head(netEvents) = "online"
    /\ netEvents' = Tail(netEvents)

C29_RecoveryMarked == [][OnlineAfterOffline => wasOffline']_vars

(***************************************************************************)
(* C30: the middleware's redirects never loop: when the browser follows a  *)
(* redirect of updateSession (to /login without a user, to /dashboard with *)
(* a user on an auth page) and getUser finds the same user as for the      *)
(* redirected request, the new request is passed through and not           *)
(* redirected again.                                                       *)
(***************************************************************************)
\* updateSession has answered a followed redirect with the user unchanged
FollowedAsSameUser ==
    /\ mwPc = "responded"
    /\ hops >= 1
    /\ mwResponse.kind # "threw"
    /\ mwUser = redirectUser

C30_RedirectsDoNotLoop == FollowedAsSameUser => mwResponse.kind = "next"

C30_Witness ==
    /\ FollowedAsSameUser
    /\ mwUser # NoUser
    /\ request = "/dashboard"
    /\ mwResponse.kind = "next"

====
